---- MODULE Spec2Model ----
(***************************************************************************)
(* Verification model of the polyhedra viewer's geometry core:             *)
(* buildColoredGeometry, buildEdgesGeometry, computeDual and the catalogue *)
(* of solids they are applied to.                                          *)
(*                                                                         *)
(* Numbers.  The code computes in IEEE doubles.  The model computes in the *)
(* exact field Q(phi) (phi the golden ratio of the catalogue), extended    *)
(* with the IEEE values NaN, +Infinity and -Infinity; rounding is not      *)
(* modelled.  A number is a record [k, a, b, d]: k = "fin" stands for      *)
(* (a + b*phi) / d with d > 0 and gcd(a, b, d) = 1, so equal numbers are   *)
(* equal records.                                                          *)
(*                                                                         *)
(* Square roots.  A uniform positive factor that is a square root (the     *)
(* catalogue's 1/maxDist, computeDual's origDist/dualDist) is carried by   *)
(* its square: a vertex list is a record [pts, unit2] that stands for the  *)
(* points pts[i] * sqrt(unit2).                                            *)
(***************************************************************************)
EXTENDS Integers, Sequences, FiniteSets, TLC

VARIABLES
  input,      \* the polyhedron the functions are applied to, and its key
  mesh,       \* what the last buildColoredGeometry call on it returned
  edges,      \* what the last buildEdgesGeometry call on it returned
  dual,       \* what the last computeDual call on it returned
  dual2,      \* what the last computeDual call on that dual returned
  calls,      \* the computeDual calls so far: arguments, results and their arrays
  nextId,     \* the first array identity not yet in use
  catalogue,  \* polyhedra: the vertices and faces of each entry, as they are now
  pc,         \* "load" before main.js's Initialize block has run, "ready" after
  currentShape, currentDisplay, showDual,     \* main.js's selection state
  meshGroup,  \* main.js's meshGroup: the group last created, or NoGroup (null)
  scene,      \* the groups that are children of the scene
  geoms,      \* every geometry createPolyhedron has built, and whether it is disposed
  shown,      \* the vertices and faces last given to the builders
  info,       \* what updateShapeInfo last wrote to #shape-info
  buttons,    \* which of the toggle buttons carry the class "active"
  activeThumb,\* the thumbnails that carry the class "active"
  thumbs      \* the thumbnails generateUI made

viewVars == <<catalogue, pc, currentShape, currentDisplay, showDual, meshGroup, scene,
              geoms, shown, info, buttons, activeThumb, thumbs>>

vars == <<input, mesh, edges, dual, dual2, calls, nextId, catalogue, pc, currentShape,
          currentDisplay, showDual, meshGroup, scene, geoms, shown, info, buttons,
          activeThumb, thumbs>>

----------------------------------------------------------------------------
(* Integer helpers *)

IAbs(n) == IF n < 0 THEN -n ELSE n

ISgn(n) == IF n > 0 THEN 1 ELSE IF n < 0 THEN -1 ELSE 0

\* the greatest common divisor of |m| and |n|
RECURSIVE Gcd(_, _)
Gcd(m, n) == IF n = 0 THEN IAbs(m) ELSE Gcd(n, m % IAbs(n))

----------------------------------------------------------------------------
(* IEEE-extended exact numbers *)

NaN  == [k |-> "nan",  a |-> 0, b |-> 0, d |-> 1]
PInf == [k |-> "pinf", a |-> 0, b |-> 0, d |-> 1]
NInf == [k |-> "ninf", a |-> 0, b |-> 0, d |-> 1]

\* (a + b*phi) / d for d > 0 and g the greatest common divisor of a, b, d
Lowest(a, b, d, g) == [k |-> "fin", a |-> a \div g, b |-> b \div g, d |-> d \div g]

\* (a + b*phi) / d in lowest terms, d # 0
Fin(a, b, d) == Lowest(a * ISgn(d), b * ISgn(d), d * ISgn(d), Gcd(Gcd(a, b), d))

N(i) == [k |-> "fin", a |-> i, b |-> 0, d |-> 1]

IsFin(x) == x.k = "fin"
IsNaN(x) == x.k = "nan"

\* sign of (u + w * sqrt 5) for integers u, w
Root5Sgn(u, w) ==
  IF u >= 0 /\ w >= 0 THEN (IF u = 0 /\ w = 0 THEN 0 ELSE 1)
  ELSE IF u <= 0 /\ w <= 0 THEN -1
  ELSE IF (u > 0) = (u * u > 5 * w * w) THEN 1 ELSE -1

\* sign of a + b*phi for integers a, b  (phi = (1 + sqrt 5) / 2)
PhiSgn(a, b) == Root5Sgn(2 * a + b, b)

\* sign of a number: 1, 0, -1; NaN has no sign (every comparison with it is false)
Sgn(x) ==
  CASE x.k = "fin"  -> PhiSgn(x.a, x.b)
    [] x.k = "pinf" -> 1
    [] x.k = "ninf" -> -1
    [] OTHER        -> 0

IsZero(x) == IsFin(x) /\ x.a = 0 /\ x.b = 0

\* the JS comparisons x > 0 and x < 0 (false for NaN)
Gt0(x) == Sgn(x) = 1
Lt0(x) == Sgn(x) = -1

InfOfSign(s) == IF s > 0 THEN PInf ELSE NInf

Neg(x) ==
  CASE x.k = "fin"  -> [x EXCEPT !.a = -x.a, !.b = -x.b]
    [] x.k = "pinf" -> NInf
    [] x.k = "ninf" -> PInf
    [] OTHER        -> NaN

\* x + y when x or y is not finite
AddSpecial(x, y) ==
  IF IsNaN(x) \/ IsNaN(y) THEN NaN
  ELSE IF IsFin(x) THEN y
  ELSE IF IsFin(y) THEN x
  ELSE IF x.k = y.k THEN x ELSE NaN

\* x + y for finite x, y whose denominators are g * dx and g * dy
AddOver(x, y, dx, dy) == Fin(x.a * dy + y.a * dx, x.b * dy + y.b * dx, x.d * dy)

Add(x, y) ==
  IF IsFin(x) /\ IsFin(y)
    THEN AddOver(x, y, x.d \div Gcd(x.d, y.d), y.d \div Gcd(x.d, y.d))
    ELSE AddSpecial(x, y)

Sub(x, y) == Add(x, Neg(y))

\* x * y when x or y is not finite
MulSpecial(x, y) ==
  IF IsNaN(x) \/ IsNaN(y) \/ IsZero(x) \/ IsZero(y) THEN NaN
  ELSE InfOfSign(Sgn(x) * Sgn(y))

\* phi * phi = phi + 1
MulParts(xa, xb, xd, ya, yb, yd) ==
  Fin(xa * ya + xb * yb, xa * yb + xb * ya + xb * yb, xd * yd)

\* the greatest common divisor of the numerator of x and the denominator of y
Common(x, y) == Gcd(Gcd(x.a, x.b), y.d)

Mul(x, y) ==
  IF IsFin(x) /\ IsFin(y)
    THEN MulParts(x.a \div Common(x, y), x.b \div Common(x, y), x.d \div Common(y, x),
                  y.a \div Common(y, x), y.b \div Common(y, x), y.d \div Common(x, y))
    ELSE MulSpecial(x, y)

\* 1 / x for finite x # 0: the conjugate of a + b*phi is a + b - b*phi
Inv(x) == Fin(x.d * (x.a + x.b), -(x.d * x.b), x.a * x.a + x.a * x.b - x.b * x.b)

\* x / y when y is zero or x or y is not finite; a zero divisor is +0 wherever
\* the code divides
DivSpecial(x, y) ==
  IF IsNaN(x) \/ IsNaN(y) \/ (IsZero(x) /\ IsZero(y)) \/ (~IsFin(x) /\ ~IsFin(y)) THEN NaN
  ELSE IF IsFin(y) THEN InfOfSign(IF IsZero(y) THEN Sgn(x) ELSE Sgn(x) * Sgn(y))
  ELSE N(0)

\* JS division
Div(x, y) ==
  IF IsFin(x) /\ IsFin(y) /\ ~IsZero(y) THEN Mul(x, Inv(y)) ELSE DivSpecial(x, y)

Abs(x) == IF Sgn(x) < 0 THEN Neg(x) ELSE x

\* x < y (false when either is NaN)
Less(x, y) == Sgn(Sub(x, y)) = -1

----------------------------------------------------------------------------
(* Vectors: <<x, y, z>> of numbers.  cross, dot and sub are computeDual's  *)
(* helpers; THREE.Vector3's crossVectors and subVectors compute the same.  *)

Vec(a, b, c) == <<N(a), N(b), N(c)>>

\* the sum nums[lo] + ... + nums[hi], by halves
RECURSIVE SumRange(_, _, _)
SumRange(nums, lo, hi) ==
  IF lo > hi THEN N(0)
  ELSE IF lo = hi THEN nums[lo]
  ELSE Add(SumRange(nums, lo, (lo + hi) \div 2), SumRange(nums, (lo + hi) \div 2 + 1, hi))

SumNum(nums) == SumRange(nums, 1, Len(nums))

\* the component after component i, cyclically
After(i) == (i % 3) + 1

cross(a, b) ==
  [i \in 1 .. 3 |-> Sub(Mul(a[After(i)], b[After(After(i))]),
                        Mul(a[After(After(i))], b[After(i)]))]

dot(a, b) == SumNum([i \in 1 .. 3 |-> Mul(a[i], b[i])])

sub(a, b) == [i \in 1 .. 3 |-> Sub(a[i], b[i])]

VecScale(v, s) == [i \in 1 .. 3 |-> Mul(v[i], s)]

VecAdd(a, b) == [i \in 1 .. 3 |-> Add(a[i], b[i])]

VecFinite(v) == \A i \in 1 .. 3 : IsFin(v[i])

ZeroVec == Vec(0, 0, 0)

\* JS arrays are 0-based: arr[i] is undefined outside 0 .. length-1
InRange(i, arr) == i \in 0 .. (Len(arr) - 1)
At(arr, i) == arr[i + 1]

\* face[(i + 1) % face.length], i a 0-based position
NextIn(face, i) == At(face, (i + 1) % Len(face))

\* the concatenation seqs[lo] \o ... \o seqs[hi], by halves
RECURSIVE FlattenRange(_, _, _)
FlattenRange(seqs, lo, hi) ==
  IF lo > hi THEN << >>
  ELSE IF lo = hi THEN seqs[lo]
  ELSE LET mid == (lo + hi) \div 2
       IN  FlattenRange(seqs, lo, mid) \o FlattenRange(seqs, mid + 1, hi)

Flatten(seqs) == FlattenRange(seqs, 1, Len(seqs))

\* the key of the edge from a to b without the ordering of the indices
EdgeKeyDirected(a, b) == ToString(a) \o "-" \o ToString(b)

\* the key a < b ? `${a}-${b}` : `${b}-${a}` of the edge from index a to index b
EdgeKey(a, b) ==
  IF a < b THEN ToString(a) \o "-" \o ToString(b)
           ELSE ToString(b) \o "-" \o ToString(a)

----------------------------------------------------------------------------
(* The catalogue (the hand-written one: vertices normalized to the unit    *)
(* circumsphere, faces possibly empty "Use convex hull").                  *)

Phi    == Fin(0, 1, 1)      \* phi = (1 + Math.sqrt(5)) / 2
InvPhi == Fin(-1, 1, 1)     \* 1 / phi = phi - 1

Norm2(v) == dot(v, v)

\* Math.max(...vertices.map(v => Math.sqrt(v[0] ** 2 + v[1] ** 2 + v[2] ** 2))), squared
MaxNorm2(vertices) ==
  LET norms == {Norm2(vertices[k]) : k \in 1 .. Len(vertices)}
  IN  CHOOSE m \in norms : \A n \in norms : ~Less(m, n)

\* normalize(vertices): v / maxDist for every vertex, maxDist the largest |v|
normalizeCatalogue(vertices) ==
  [pts |-> vertices, unit2 |-> Div(N(1), MaxNorm2(vertices))]

tetrahedron ==
  [vertices |-> normalizeCatalogue(
      <<Vec(1, 1, 1), Vec(1, -1, -1), Vec(-1, 1, -1), Vec(-1, -1, 1)>>),
   faces |-> << <<0, 1, 2>>, <<0, 3, 1>>, <<0, 2, 3>>, <<1, 3, 2>> >>]

cube ==
  [vertices |-> normalizeCatalogue(
      <<Vec(-1, -1, -1), Vec(1, -1, -1), Vec(1, 1, -1), Vec(-1, 1, -1),
        Vec(-1, -1, 1), Vec(1, -1, 1), Vec(1, 1, 1), Vec(-1, 1, 1)>>),
   faces |-> << <<0, 3, 2, 1>>, <<4, 5, 6, 7>>, <<0, 1, 5, 4>>,
                <<2, 3, 7, 6>>, <<0, 4, 7, 3>>, <<1, 2, 6, 5>> >>]

\* the octahedron's data with its last face left out
octahedronOpen ==
  [vertices |-> normalizeCatalogue(
      <<Vec(1, 0, 0), Vec(-1, 0, 0), Vec(0, 1, 0), Vec(0, -1, 0),
        Vec(0, 0, 1), Vec(0, 0, -1)>>),
   faces |-> << <<0, 2, 4>>, <<0, 4, 3>>, <<0, 3, 5>>, <<0, 5, 2>>,
                <<1, 4, 2>>, <<1, 3, 4>>, <<1, 5, 3>> >>]

octahedron ==
  [vertices |-> normalizeCatalogue(
      <<Vec(1, 0, 0), Vec(-1, 0, 0), Vec(0, 1, 0), Vec(0, -1, 0),
        Vec(0, 0, 1), Vec(0, 0, -1)>>),
   faces |-> << <<0, 2, 4>>, <<0, 4, 3>>, <<0, 3, 5>>, <<0, 5, 2>>,
                <<1, 4, 2>>, <<1, 3, 4>>, <<1, 5, 3>>, <<1, 2, 5>> >>]

dodecahedron ==
  LET pp == Phi
      qq == InvPhi
      mp == Neg(Phi)
      mq == Neg(InvPhi)
      oo == N(0)
      ii == N(1)
      mm == N(-1)
  IN
  [vertices |-> normalizeCatalogue(
      << <<ii, ii, ii>>, <<ii, ii, mm>>, <<ii, mm, ii>>, <<ii, mm, mm>>,
         <<mm, ii, ii>>, <<mm, ii, mm>>, <<mm, mm, ii>>, <<mm, mm, mm>>,
         <<oo, qq, pp>>, <<oo, qq, mp>>, <<oo, mq, pp>>, <<oo, mq, mp>>,
         <<qq, pp, oo>>, <<mq, pp, oo>>, <<qq, mp, oo>>, <<mq, mp, oo>>,
         <<pp, oo, qq>>, <<pp, oo, mq>>, <<mp, oo, qq>>, <<mp, oo, mq>> >>),
   faces |-> << <<0, 16, 2, 10, 8>>, <<0, 8, 4, 13, 12>>, <<0, 12, 1, 17, 16>>,
                <<8, 10, 6, 18, 4>>, <<2, 16, 17, 3, 14>>, <<10, 2, 14, 15, 6>>,
                <<1, 12, 13, 5, 9>>, <<4, 18, 19, 5, 13>>, <<17, 1, 9, 11, 3>>,
                <<6, 15, 7, 19, 18>>, <<3, 11, 7, 15, 14>>, <<5, 19, 7, 11, 9>> >>]

icosahedron ==
  LET pp == Phi
      mp == Neg(Phi)
      oo == N(0)
      ii == N(1)
      mm == N(-1)
  IN
  [vertices |-> normalizeCatalogue(
      << <<oo, ii, pp>>, <<oo, ii, mp>>, <<oo, mm, pp>>, <<oo, mm, mp>>,
         <<ii, pp, oo>>, <<ii, mp, oo>>, <<mm, pp, oo>>, <<mm, mp, oo>>,
         <<pp, oo, ii>>, <<pp, oo, mm>>, <<mp, oo, ii>>, <<mp, oo, mm>> >>),
   faces |-> << <<0, 2, 8>>, <<0, 8, 4>>, <<0, 4, 6>>, <<0, 6, 10>>, <<0, 10, 2>>,
                <<2, 5, 8>>, <<8, 9, 4>>, <<4, 1, 6>>, <<6, 11, 10>>, <<10, 7, 2>>,
                <<5, 2, 7>>, <<9, 8, 5>>, <<1, 4, 9>>, <<11, 6, 1>>, <<7, 10, 11>>,
                <<3, 5, 7>>, <<3, 9, 5>>, <<3, 1, 9>>, <<3, 11, 1>>, <<3, 7, 11>> >>]

cuboctahedron ==
  [vertices |-> normalizeCatalogue(
      <<Vec(1, 1, 0), Vec(1, -1, 0), Vec(-1, 1, 0), Vec(-1, -1, 0),
        Vec(1, 0, 1), Vec(1, 0, -1), Vec(-1, 0, 1), Vec(-1, 0, -1),
        Vec(0, 1, 1), Vec(0, 1, -1), Vec(0, -1, 1), Vec(0, -1, -1)>>),
   faces |-> << <<0, 4, 8>>, <<0, 9, 5>>, <<2, 8, 6>>, <<2, 7, 9>>,
                <<1, 10, 4>>, <<1, 5, 11>>, <<3, 6, 10>>, <<3, 11, 7>>,
                <<0, 8, 2, 9>>, <<1, 11, 3, 10>>, <<4, 10, 6, 8>>,
                <<5, 9, 7, 11>>, <<0, 5, 1, 4>>, <<2, 6, 3, 7>> >>]

truncatedTetrahedron ==
  [vertices |-> normalizeCatalogue(
      <<Vec(3, 1, 1), Vec(1, 3, 1), Vec(1, 1, 3),
        Vec(-3, -1, 1), Vec(-1, -3, 1), Vec(-1, -1, 3),
        Vec(-3, 1, -1), Vec(-1, 3, -1), Vec(-1, 1, -3),
        Vec(3, -1, -1), Vec(1, -3, -1), Vec(1, -1, -3)>>),
   faces |-> << >>]

truncatedOctahedron ==
  [vertices |-> normalizeCatalogue(
      <<Vec(0, 1, 2), Vec(0, 2, 1), Vec(1, 0, 2), Vec(2, 0, 1),
        Vec(1, 2, 0), Vec(2, 1, 0), Vec(0, -1, 2), Vec(0, -2, 1),
        Vec(-1, 0, 2), Vec(-2, 0, 1), Vec(-1, 2, 0), Vec(-2, 1, 0),
        Vec(0, 1, -2), Vec(0, 2, -1), Vec(1, 0, -2), Vec(2, 0, -1),
        Vec(1, -2, 0), Vec(2, -1, 0), Vec(0, -1, -2), Vec(0, -2, -1),
        Vec(-1, 0, -2), Vec(-2, 0, -1), Vec(-1, -2, 0), Vec(-2, -1, 0)>>),
   faces |-> << >>]

\* export const polyhedra: the keys modelled, and the record of each
\* (name and category added to the solid's vertices and faces)
ShapeKeys ==
  {"tetrahedron", "cube", "octahedron", "dodecahedron", "icosahedron",
   "truncatedTetrahedron", "cuboctahedron", "truncatedOctahedron"}

Entry(name, category, solid) ==
  [name |-> name, category |-> category, vertices |-> solid.vertices, faces |-> solid.faces]

polyhedra ==
  [key \in ShapeKeys |->
     CASE key = "tetrahedron" -> Entry("Tetrahedron", "platonic", tetrahedron)
       [] key = "cube" -> Entry("Cube", "platonic", cube)
       [] key = "octahedron" -> Entry("Octahedron", "platonic", octahedron)
       [] key = "dodecahedron" -> Entry("Dodecahedron", "platonic", dodecahedron)
       [] key = "icosahedron" -> Entry("Icosahedron", "platonic", icosahedron)
       [] key = "truncatedTetrahedron" ->
            Entry("Truncated Tetrahedron", "archimedean", truncatedTetrahedron)
       [] key = "cuboctahedron" -> Entry("Cuboctahedron", "archimedean", cuboctahedron)
       [] OTHER -> Entry("Truncated Octahedron", "archimedean", truncatedOctahedron)]

----------------------------------------------------------------------------
(* Geometry builder *)

polygonColors3  == 15158332    \* 0xe74c3c
polygonColors4  == 3447003     \* 0x3498db
polygonColors5  == 3066993     \* 0x2ecc71
polygonColors6  == 15965202    \* 0xf39c12
polygonColors8  == 10181046    \* 0x9b59b6
polygonColors10 == 1752220     \* 0x1abc9c
FallbackColor   == 8947848     \* 0x888888

\* the table read with the number of fan triangles in place of the side count
ColorOfTriangles(sides) ==
  CASE sides - 2 = 3  -> polygonColors3
    [] sides - 2 = 4  -> polygonColors4
    [] sides - 2 = 5  -> polygonColors5
    [] sides - 2 = 6  -> polygonColors6
    [] sides - 2 = 8  -> polygonColors8
    [] sides - 2 = 10 -> polygonColors10
    [] OTHER          -> FallbackColor

\* polygonColors[sides] || 0x888888
ColorOfSides(sides) ==
  CASE sides = 3  -> polygonColors3
    [] sides = 4  -> polygonColors4
    [] sides = 5  -> polygonColors5
    [] sides = 6  -> polygonColors6
    [] sides = 8  -> polygonColors8
    [] sides = 10 -> polygonColors10
    [] OTHER      -> FallbackColor

\* new THREE.Color(hex): the three channels, as the bytes of hex
ColorChannels(hex) == <<(hex \div 65536) % 256, (hex \div 256) % 256, hex % 256>>

\* scale = 1.5, the default and the value createPolyhedron passes
DefaultScale == Fin(3, 0, 2)

\* vertices[i]: the point, or undefined
\* an index taken modulo the length, as arrays that wrap around would
LookupWrapping(vertices, i) ==
  [def |-> TRUE, v |-> At(vertices.pts, i % Len(vertices.pts))]

\* vertices[i]: the vertex, or undefined when i is no index of the array
Lookup(vertices, i) ==
  IF InRange(i, vertices.pts)
    THEN [def |-> TRUE, v |-> At(vertices.pts, i)]
    ELSE [def |-> FALSE, v |-> ZeroVec]

\* face.map(i => vertices[i])
FaceVerts(vertices, face) == [k \in 1 .. Len(face) |-> Lookup(vertices, face[k])]

\* faceVerts[k], k 0-based: undefined past the end of the face
FaceVertAt(faceVerts, k) ==
  IF InRange(k, faceVerts) THEN At(faceVerts, k) ELSE [def |-> FALSE, v |-> ZeroVec]

\* Vector3.normalize() of a vector c of squared length len2: c / |c|, the
\* zero vector staying zero.  A unit-vector component is carried as
\* num / sqrt(den2).
UnitOf(c, len2) ==
  [k \in 1 .. 3 |-> IF IsZero(len2) THEN [num |-> N(0), den2 |-> N(1)]
                                     ELSE [num |-> c[k], den2 |-> len2]]

UnitVector(c) == UnitOf(c, Norm2(c))

\* (v1 - v0) x (v2 - v0) of the first three vertices of a face
edgeCross(faceVerts) ==
  cross(sub(FaceVertAt(faceVerts, 1).v, FaceVertAt(faceVerts, 0).v),
        sub(FaceVertAt(faceVerts, 2).v, FaceVertAt(faceVerts, 0).v))

\* one of the first three vertices of a face is undefined: spreading it or
\* indexing it throws
firstThreeUndefined(faceVerts) == \E k \in 0 .. 2 : ~FaceVertAt(faceVerts, k).def

\* a fan loop that stops one turn early: i < face.length - 2
FanTurnsShort(sides) == 1 .. (sides - 3)

\* for (let i = 1; i < face.length - 1; i++)
FanTurns(sides) == 1 .. (sides - 2)

\* corner c = 0, 1, 2 of [faceVerts[0], faceVerts[i], faceVerts[i + 1]]
fanCorner(faceVerts, i, c) == FaceVertAt(faceVerts, IF c = 0 THEN 0 ELSE i + c - 1)

\* one turn i of the fan loop: the nine numbers pushed to each buffer by
\* "for (const vert of [faceVerts[0], faceVerts[i], faceVerts[i + 1]])"
fanTriangle(faceVerts, i, color, normal, scale) ==
  [thrown |-> \E c \in 0 .. 2 : ~fanCorner(faceVerts, i, c).def,     \* vert[0] of undefined
   positions |-> [j \in 1 .. 9 |->
                    Mul(fanCorner(faceVerts, i, (j - 1) \div 3).v[((j - 1) % 3) + 1], scale)],
   colors |-> [j \in 1 .. 9 |-> color[((j - 1) % 3) + 1]],
   normals |-> [j \in 1 .. 9 |-> normal[((j - 1) % 3) + 1]]]

\* the body of "for (const face of faces)" of buildColoredGeometry, given the
\* face's vertices, colour and normal: what the face pushes to the three
\* buffers, or that it throws
coloredFan(faceVerts, color, normal, scale) ==
  IF firstThreeUndefined(faceVerts)                       \* new Vector3(...undefined)
     \/ \E i \in FanTurns(Len(faceVerts)) : fanTriangle(faceVerts, i, color, normal, scale).thrown
    THEN [thrown |-> TRUE, positions |-> << >>, colors |-> << >>, normals |-> << >>]
    ELSE [thrown |-> FALSE,
          positions |-> Flatten([i \in FanTurns(Len(faceVerts)) |->
                           fanTriangle(faceVerts, i, color, normal, scale).positions]),
          colors |-> Flatten([i \in FanTurns(Len(faceVerts)) |->
                           fanTriangle(faceVerts, i, color, normal, scale).colors]),
          normals |-> Flatten([i \in FanTurns(Len(faceVerts)) |->
                           fanTriangle(faceVerts, i, color, normal, scale).normals])]

coloredFace(vertices, face, scale) ==
  coloredFan(FaceVerts(vertices, face), ColorChannels(ColorOfSides(Len(face))),
             UnitVector(edgeCross(FaceVerts(vertices, face))), scale)

\* the buffers of the faces, one after another
coloredBuffers(per, unit2) ==
  IF \E f \in DOMAIN per : per[f].thrown
    THEN [status |-> "throws", position |-> << >>, color |-> << >>,
          normal |-> << >>, unit2 |-> unit2]
    ELSE [status |-> "ok",
          position |-> Flatten([f \in DOMAIN per |-> per[f].positions]),
          color |-> Flatten([f \in DOMAIN per |-> per[f].colors]),
          normal |-> Flatten([f \in DOMAIN per |-> per[f].normals]),
          unit2 |-> unit2]

\* buildColoredGeometry(vertices, faces, scale): the three attributes of the
\* returned geometry (a number of `position` standing for itself times
\* sqrt(unit2)), or the TypeError it throws
buildColoredGeometry(vertices, faces, scale) ==
  coloredBuffers([f \in 1 .. Len(faces) |-> coloredFace(vertices, faces[f], scale)],
                 vertices.unit2)

\* every turn of the two nested loops "for (const face of faces) for (let i = 0;
\* i < face.length; i++)", in order: the indices a, b and the key of each
EdgeTurns(faces) ==
  Flatten([f \in 1 .. Len(faces) |->
             [i \in 1 .. Len(faces[f]) |->
                [fi |-> f - 1,
                 a |-> At(faces[f], i - 1),
                 b |-> NextIn(faces[f], i - 1),
                 key |-> EdgeKey(At(faces[f], i - 1), NextIn(faces[f], i - 1))]]])

\* the turns at which "if (!edgeSet.has(key))" holds: the key was added by
\* no earlier turn
NewEdgeTurns(turns) ==
  LET isNew(j) == \A h \in 1 .. (j - 1) : turns[h].key # turns[j].key
      keep(e) == isNew(e.j)
      kept == SelectSeq([j \in 1 .. Len(turns) |-> [j |-> j, t |-> turns[j]]], keep)
  IN  [j \in 1 .. Len(kept) |-> kept[j].t]

\* positions.push(vertices[a][0] * scale, ... vertices[b][2] * scale)
edgeSegment(vertices, a, b, scale) ==
  [thrown |-> ~Lookup(vertices, a).def \/ ~Lookup(vertices, b).def,  \* vertices[a][0] of undefined
   positions |-> [j \in 1 .. 6 |->
                    Mul(Lookup(vertices, IF j <= 3 THEN a ELSE b).v[((j - 1) % 3) + 1], scale)]]

\* the segments of the turns that add a key
edgeSegments(vertices, fresh, scale) ==
  [j \in 1 .. Len(fresh) |-> edgeSegment(vertices, fresh[j].a, fresh[j].b, scale)]

segmentBuffer(segs, unit2) ==
  IF \E j \in DOMAIN segs : segs[j].thrown
    THEN [status |-> "throws", position |-> << >>, unit2 |-> unit2]
    ELSE [status |-> "ok",
          position |-> Flatten([j \in DOMAIN segs |-> segs[j].positions]),
          unit2 |-> unit2]

\* buildEdgesGeometry(vertices, faces, scale): the position attribute of the
\* returned geometry, six numbers a segment, or the TypeError it throws
buildEdgesGeometry(vertices, faces, scale) ==
  segmentBuffer(edgeSegments(vertices, NewEdgeTurns(EdgeTurns(faces)), scale), vertices.unit2)

\* buildConvexGeometry(vertices, scale): the points handed to ConvexGeometry,
\* every vertex times scale, in order; the hull itself is the library's
buildConvexGeometry(vertices, scale) ==
  [status |-> "ok",
   points |-> [k \in 1 .. Len(vertices.pts) |-> VecScale(vertices.pts[k], scale)],
   unit2 |-> vertices.unit2]

\* updateShapeInfo's edge count: edgeSet.size after every turn added its key
shapeInfoEdges(faces) ==
  Cardinality({EdgeTurns(faces)[j].key : j \in 1 .. Len(EdgeTurns(faces))})

----------------------------------------------------------------------------
(* Dual computation: computeDual(vertices, faces)                          *)
(*                                                                         *)
(* Units.  With rbar the average distance of the edge midpoints of         *)
(* vertices.pts from the origin, the midsphere radius squared is           *)
(* vertices.unit2 * rbar^2.  It is carried as the number of units of       *)
(* rho = unit2 * rbar^2 it holds: 1, or 0 when every midpoint is the       *)
(* origin, or NaN when there is no edge (0 / 0).  A dual vertex before     *)
(* the rescale is carried in units of w = rho / sqrt(unit2), which is      *)
(* positive: signs and the tests against 0 are those of the code.          *)

\* Step 1.  The turns of the midsphere loop that add a key to seenEdges read
\* vertices[a] and vertices[b]; the sum of the midpoints' distances is 0
\* exactly when every midpoint is the origin.
edgeMidpoint(vertices, a, b) ==
  [thrown |-> ~Lookup(vertices, a).def \/ ~Lookup(vertices, b).def,   \* va[0] of undefined
   mid |-> [k \in 1 .. 3 |-> Div(Add(Lookup(vertices, a).v[k], Lookup(vertices, b).v[k]), N(2))]]

edgeMidpoints(vertices, fresh) ==
  [j \in 1 .. Len(fresh) |-> edgeMidpoint(vertices, fresh[j].a, fresh[j].b)]

\* midRadiusSum / edgeCount, squared, in units
midsphereOf(mids) ==
  [thrown |-> \E j \in DOMAIN mids : mids[j].thrown,
   units |-> IF Len(mids) = 0 THEN NaN
             ELSE IF \A j \in DOMAIN mids : IsZero(Norm2(mids[j].mid)) THEN N(0)
             ELSE N(1)]

midsphereR2(vertices, faces) ==
  midsphereOf(edgeMidpoints(vertices, NewEdgeTurns(EdgeTurns(faces))))

\* Step 2.  faces.map(face => ...): the dual vertex of one face.
\* normal = c / |c| with c = (v1 - v0) x (v2 - v0), or the zero vector;
\* d = |v0 . normal| = |v0 . c| / |c|; sign = (centroid . normal > 0) ? 1 : -1,
\* which is the test centroid . c > 0; normal[k] * (r2 / d) * sign is
\* c[k] * (r2 / |v0 . c|) * sign, the lengths |c| cancelling.
faceCentroid(faceVerts) ==
  [k \in 1 .. 3 |-> Div(SumNum([j \in DOMAIN faceVerts |-> faceVerts[j].v[k]]),
                        N(Len(faceVerts)))]

\* the sign taken as 1 whatever side of the origin the face lies on
faceSignAlwaysOne(faceVerts, c) == N(1)

faceSign(faceVerts, c) == IF Gt0(dot(faceCentroid(faceVerts), c)) THEN N(1) ELSE N(-1)

\* the dual vertex with d the signed distance v0 . normal, Math.abs left out
polarPointSignedDistance(faceVerts, c, r2) ==
  [thrown |-> firstThreeUndefined(faceVerts)
              \/ \E k \in DOMAIN faceVerts : ~faceVerts[k].def,
   v |-> VecScale(VecScale(c, Div(r2, dot(FaceVertAt(faceVerts, 0).v, c))),
                  faceSign(faceVerts, c))]

\* the dual vertex of a face with vertices faceVerts and edge cross product c
polarPoint(faceVerts, c, r2) ==
  [thrown |-> firstThreeUndefined(faceVerts)              \* a[0] of undefined in sub
              \/ \E k \in DOMAIN faceVerts : ~faceVerts[k].def,
   v |-> VecScale(VecScale(c, Div(r2, Abs(dot(FaceVertAt(faceVerts, 0).v, c)))),
                  faceSign(faceVerts, c))]

dualVertex(vertices, face, r2) ==
  polarPoint(FaceVerts(vertices, face), edgeCross(FaceVerts(vertices, face)), r2)

\* Step 3.  vertexToFaces[vi]: the faces listing vi, one entry a listing, in
\* face order.  Object.keys gives the keys in ascending order (they are
\* array indices).
VertexKeys(faces) ==
  UNION {{faces[f][k] : k \in 1 .. Len(faces[f])} : f \in 1 .. Len(faces)}

vertexToFaces(faces, vi) ==
  LET lists(t) == t.a = vi
      kept == SelectSeq(EdgeTurns(faces), lists)
  IN  [j \in 1 .. Len(kept) |-> kept[j].fi]

\* edgeToFaces[key]: the faces with an edge of that key, one entry an edge
edgeToFaces(faces, key) ==
  LET has(t) == t.key = key
      kept == SelectSeq(EdgeTurns(faces), has)
  IN  [j \in 1 .. Len(kept) |-> kept[j].fi]

SeqIncludes(seq, e) == \E j \in 1 .. Len(seq) : seq[j] = e

\* the candidates of a walk that does not test !orderedFaces.includes(nextFace)
walkCandidatesRevisiting(faces, vertexIdx, adjFaces, orderedFaces) ==
  LET currentFace == orderedFaces[Len(orderedFaces)]
      face == At(faces, currentFace)
      ok(nextFace) == nextFace # currentFace /\ SeqIncludes(adjFaces, nextFace)
      atEdge(i) ==
        IF At(face, i) = vertexIdx \/ NextIn(face, i) = vertexIdx
          THEN SelectSeq(edgeToFaces(faces, EdgeKey(At(face, i), NextIn(face, i))), ok)
          ELSE << >>
  IN  Flatten([i \in 1 .. Len(face) |-> atEdge(i - 1)])

\* the candidates of a walk that looks from the first face, orderedFaces[0],
\* at every turn
walkCandidatesFromFirst(faces, vertexIdx, adjFaces, orderedFaces) ==
  LET currentFace == orderedFaces[1]
      face == At(faces, currentFace)
      ok(nextFace) == /\ nextFace # currentFace
                      /\ SeqIncludes(adjFaces, nextFace)
                      /\ ~SeqIncludes(orderedFaces, nextFace)
      atEdge(i) ==
        IF At(face, i) = vertexIdx \/ NextIn(face, i) = vertexIdx
          THEN SelectSeq(edgeToFaces(faces, EdgeKey(At(face, i), NextIn(face, i))), ok)
          ELSE << >>
  IN  Flatten([i \in 1 .. Len(face) |-> atEdge(i - 1)])

\* a walk that never finds a next face: every turn takes the safety branch
walkCandidatesStalled(faces, vertexIdx, adjFaces, orderedFaces) == << >>

\* Step 4, one turn of "while (orderedFaces.length < adjFaces.length)":
\* the faces the two nested for loops would push, in the order they are
\* met; the first is the one pushed
walkCandidates(faces, vertexIdx, adjFaces, orderedFaces) ==
  LET currentFace == orderedFaces[Len(orderedFaces)]
      face == At(faces, currentFace)
      ok(nextFace) == /\ nextFace # currentFace
                      /\ SeqIncludes(adjFaces, nextFace)
                      /\ ~SeqIncludes(orderedFaces, nextFace)
      atEdge(i) ==
        IF At(face, i) = vertexIdx \/ NextIn(face, i) = vertexIdx
          THEN SelectSeq(edgeToFaces(faces, EdgeKey(At(face, i), NextIn(face, i))), ok)
          ELSE << >>
  IN  Flatten([i \in 1 .. Len(face) |-> atEdge(i - 1)])

\* the safety branch: the faces of adjFaces not yet used, the first is pushed
walkFallback(adjFaces, orderedFaces) ==
  LET unused(f) == ~SeqIncludes(orderedFaces, f)
  IN  SelectSeq(adjFaces, unused)

\* the while loop from orderedFaces on: the final order, whether the safety
\* branch ran, and whether the loop can never end (a turn pushes nothing)
RECURSIVE orderFaces(_, _, _, _, _)
orderFaces(faces, vertexIdx, adjFaces, orderedFaces, fellBack) ==
  IF ~(Len(orderedFaces) < Len(adjFaces))
    THEN [ordered |-> orderedFaces, fellBack |-> fellBack, hangs |-> FALSE]
  ELSE IF walkCandidates(faces, vertexIdx, adjFaces, orderedFaces) # << >>
    THEN orderFaces(faces, vertexIdx, adjFaces,
                    Append(orderedFaces,
                           walkCandidates(faces, vertexIdx, adjFaces, orderedFaces)[1]),
                    fellBack)
  ELSE IF walkFallback(adjFaces, orderedFaces) # << >>
    THEN orderFaces(faces, vertexIdx, adjFaces,
                    Append(orderedFaces, walkFallback(adjFaces, orderedFaces)[1]), TRUE)
  ELSE [ordered |-> orderedFaces, fellBack |-> TRUE, hangs |-> TRUE]

\* Newell's normal of the polygon faceIndices over dualVertices: component k
\* sums (curr - next) of the component after k times (curr + next) of the
\* one after that
newellNormal(dualVertices, faceIndices) ==
  LET curr(i) == At(dualVertices, faceIndices[i])
      next(i) == At(dualVertices, faceIndices[(i % Len(faceIndices)) + 1])
  IN  [k \in 1 .. 3 |->
         SumNum([i \in 1 .. Len(faceIndices) |->
                   Mul(Sub(curr(i)[After(k)], next(i)[After(k)]),
                       Add(curr(i)[After(After(k))], next(i)[After(After(k))]))])]

polygonCentroid(dualVertices, faceIndices) ==
  [k \in 1 .. 3 |->
     Div(SumNum([i \in DOMAIN faceIndices |-> At(dualVertices, faceIndices[i])[k]]),
         N(Len(faceIndices)))]

\* nx * cx + ny * cy + nz * cz
orientationDot(dualVertices, faceIndices) ==
  dot(newellNormal(dualVertices, faceIndices), polygonCentroid(dualVertices, faceIndices))

Reverse(seq) == [j \in 1 .. Len(seq) |-> seq[Len(seq) + 1 - j]]

\* the walked order kept whatever the sign of the dot product
orientFaceAsWalked(dualVertices, faceIndices) == faceIndices

\* if (nx * cx + ny * cy + nz * cz < 0) faceIndices.reverse()
orientFace(dualVertices, faceIndices) ==
  IF Lt0(orientationDot(dualVertices, faceIndices)) THEN Reverse(faceIndices) ELSE faceIndices

\* what the walk around vertexIdx and the orientation step leave
orientedWalk(dualVertices, vertexIdx, walk) ==
  [vertexIdx |-> vertexIdx,
   hangs |-> walk.hangs,
   fellBack |-> walk.fellBack,
   walked |-> walk.ordered,
   face |-> IF walk.hangs THEN walk.ordered ELSE orientFace(dualVertices, walk.ordered)]

\* the body of "for (const vi of Object.keys(vertexToFaces))" for a vertex
\* with at least 3 incident faces: const orderedFaces = [adjFaces[0]], the
\* walk, the orientation
dualFace(faces, dualVertices, vertexIdx) ==
  orientedWalk(dualVertices, vertexIdx,
               orderFaces(faces, vertexIdx, vertexToFaces(faces, vertexIdx),
                          <<vertexToFaces(faces, vertexIdx)[1]>>, FALSE))

\* the elements of a set of numbers, ascending
SortedSeq(set) ==
  [j \in 1 .. Cardinality(set) |->
     CHOOSE e \in set : Cardinality({o \in set : o < e}) = j - 1]

\* if (adjFaces.length < 4) continue
MinDegreeFour == 3 + 1

\* if (adjFaces.length < 3) continue
MinDegree == 3

\* the keys with the first one left out
dualFaceKeysSkippingFirst(faces) ==
  SubSeq(SortedSeq({vi \in VertexKeys(faces) : Len(vertexToFaces(faces, vi)) >= MinDegree}),
         2, Cardinality({vi \in VertexKeys(faces) : Len(vertexToFaces(faces, vi)) >= MinDegree}))

\* the keys in the order the face list first meets them, as a structure
\* iterated in insertion order gives them
dualFaceKeysAsMet(faces) ==
  LET listed == [t \in 1 .. Len(EdgeTurns(faces)) |-> EdgeTurns(faces)[t].a]
      first == SortedSeq({t \in 1 .. Len(listed) : \A u \in 1 .. (t - 1) : listed[u] # listed[t]})
      kept(vi) == Len(vertexToFaces(faces, vi)) >= MinDegree
  IN  SelectSeq([j \in 1 .. Len(first) |-> listed[first[j]]], kept)

\* the keys of vertexToFaces with adjFaces.length >= 3, ascending
dualFaceKeys(faces) ==
  SortedSeq({vi \in VertexKeys(faces) : Len(vertexToFaces(faces, vi)) >= MinDegree})

dualFacesOf(faces, dualVertices, keys) ==
  [j \in 1 .. Len(keys) |-> dualFace(faces, dualVertices, keys[j])]

\* Step 5.  scaleFactor = origDist / dualDist, carried by its square over the
\* units: finite and positive it is a new unit2; 0, Infinity and NaN multiply
\* into the coordinates.
rescaleBy(vertices, dualVertices, factor2) ==
  IF IsFin(factor2) /\ Gt0(factor2)
    THEN [pts |-> dualVertices, unit2 |-> Mul(vertices.unit2, factor2)]
    ELSE [pts |-> [f \in 1 .. Len(dualVertices) |-> VecScale(dualVertices[f], factor2)],
          unit2 |-> N(1)]

\* the factor taken upside down: dualDist / origDist
rescaleInverted(vertices, dualVertices) ==
  rescaleBy(vertices, dualVertices,
            Div(Norm2(At(dualVertices, 0)), Norm2(At(vertices.pts, 0))))

rescale(vertices, dualVertices) ==
  rescaleBy(vertices, dualVertices,
            Div(Norm2(At(vertices.pts, 0)), Norm2(At(dualVertices, 0))))

NoVertices == [pts |-> << >>, unit2 |-> N(1)]

\* the outcome of the five steps, given what steps 1 to 4 computed
dualResult(vertices, faces, thrown, dualVertices, df) ==
  IF thrown
    THEN [status |-> "throws", vertices |-> NoVertices, faces |-> << >>]
  ELSE IF \E j \in DOMAIN df : df[j].hangs
    THEN [status |-> "hangs", vertices |-> NoVertices, faces |-> << >>]
  ELSE IF Len(vertices.pts) = 0 \/ Len(faces) = 0         \* dot(undefined, undefined)
    THEN [status |-> "throws", vertices |-> NoVertices, faces |-> << >>]
  ELSE [status |-> "ok",
        vertices |-> rescale(vertices, dualVertices),
        faces |-> [j \in 1 .. Len(df) |-> df[j].face]]

\* steps 3 to 5, given the dual vertices of step 2 (dv[f].v, or dv[f].thrown)
dualFromVertices(vertices, faces, thrown, dv) ==
  dualResult(vertices, faces, thrown \/ \E f \in DOMAIN dv : dv[f].thrown,
             [f \in DOMAIN dv |-> dv[f].v],
             dualFacesOf(faces, [f \in DOMAIN dv |-> dv[f].v], dualFaceKeys(faces)))

\* steps 2 to 5, given the midsphere radius of step 1
dualFromMidsphere(vertices, faces, r2) ==
  dualFromVertices(vertices, faces, r2.thrown,
                   [f \in 1 .. Len(faces) |-> dualVertex(vertices, faces[f], r2.units)])

\* computeDual with seenEdges kept from one call to the next: after the first
\* call no edge is new, edgeCount is 0 and midRadius is 0 / 0
computeDualSharedSeen(vertices, faces) ==
  dualFromMidsphere(vertices, faces,
                    IF calls = << >> THEN midsphereR2(vertices, faces)
                    ELSE [thrown |-> FALSE, units |-> NaN])

computeDual(vertices, faces) == dualFromMidsphere(vertices, faces, midsphereR2(vertices, faces))

----------------------------------------------------------------------------
(* Inputs of the geometry functions: the catalogue's solids, a family of   *)
(* pyramids over convex polygons, and variants of them that break one of   *)
(* the Polyhedron invariants each.                                         *)

MaxSides == 6       \* pyramids over 3 .. MaxSides sided polygons
MaxCalls == 3       \* computeDual calls in one run

\* the pyramid over the n-gon (x, x*x - 2, z0), x = 1-n, 3-n .. n-1, apex (0, 0, 3);
\* the base is listed clockwise seen from above, the sides counter-clockwise
PyramidAt(n, z0) ==
  [vertices |->
     [pts |-> [k \in 1 .. (n + 1) |->
                 IF k <= n
                   THEN Vec(2 * (k - 1) - (n - 1),
                            (2 * (k - 1) - (n - 1)) * (2 * (k - 1) - (n - 1)) - 2, z0)
                   ELSE Vec(0, 0, 3)],
      unit2 |-> N(1)],
   faces |-> <<[k \in 1 .. n |-> n - k]>> \o
             [k \in 1 .. n |-> <<k - 1, k % n, n>>]]

Pyramid(n) == PyramidAt(n, -1)

\* the base of the pyramid alone: one face of n vertices
Polygon(n) == [Pyramid(n) EXCEPT !.faces = <<[k \in 1 .. n |-> n - k]>>]

ReverseWinding(p) == [p EXCEPT !.faces = [f \in DOMAIN p.faces |-> Reverse(p.faces[f])]]

ReverseFace(p, f) == [p EXCEPT !.faces[f] = Reverse(@)]

DropLastFace(p) == [p EXCEPT !.faces = SubSeq(p.faces, 1, Len(p.faces) - 1)]

WithExtraVertex(p) == [p EXCEPT !.vertices.pts = Append(@, Vec(0, 0, 4))]

WithFaces(p, faces) == [p EXCEPT !.faces = faces]

\* vertex index i (0-based) moved to the point v
WithVertex(p, i, v) == [p EXCEPT !.vertices.pts[i + 1] = v]

\* the origin put in front of the vertex list, listed by no face
WithOriginFirst(p) ==
  [vertices |-> [pts |-> <<ZeroVec>> \o p.vertices.pts, unit2 |-> p.vertices.unit2],
   faces |-> [f \in DOMAIN p.faces |-> [k \in DOMAIN p.faces[f] |-> p.faces[f][k] + 1]]]

\* a polyhedron under a key
Named(key, p) == [key |-> key, vertices |-> p.vertices, faces |-> p.faces]

CatalogueInputs == {Named(key, polyhedra[key]) : key \in ShapeKeys}

PyramidInputs == {Named("pyramid" \o ToString(n), Pyramid(n)) : n \in 3 .. MaxSides}

VariantInputs ==
  { Named("cubeInward", ReverseWinding(cube)),
    Named("pyramidInward", ReverseWinding(Pyramid(4))),
    Named("cubeOneInward", ReverseFace(cube, 2)),
    Named("tetrahedronOpen", DropLastFace(tetrahedron)),
    Named("tetrahedronExtraVertex", WithExtraVertex(tetrahedron)),
    Named("fanMiddleFirst", WithFaces(Pyramid(4), << <<1, 2, 4>>, <<0, 1, 4>>, <<2, 3, 4>> >>)),
    Named("triangle", WithFaces(tetrahedron, << <<0, 1, 2>> >>)),
    Named("pyramidThroughOrigin", PyramidAt(4, 0)),
    Named("badIndex", WithFaces(tetrahedron, << <<0, 1, 2>>, <<0, 3, 7>> >>)),
    Named("badIndexLate", WithFaces(cube, << <<0, 3, 2, 1>>, <<4, 5, 6, 9>> >>)),
    Named("cubeBent", WithVertex(cube, 6, Vec(1, 1, 2))),
    Named("originFirst", WithOriginFirst(tetrahedron)),
    Named("heptagon", Polygon(7)),
    Named("octagon", Polygon(8)),
    Named("decagon", Polygon(10)),
    Named("repeatedIndex",
          WithFaces(tetrahedron, << <<0, 1, 0, 2>>, <<0, 3, 1>>, <<0, 2, 3>>, <<1, 3, 2>> >>)) }

Inputs == CatalogueInputs \cup PyramidInputs \cup VariantInputs

\* the scales the callers pass: createPolyhedron 1.5, generateThumbnail 1.2
Scales == {DefaultScale, Fin(6, 0, 5)}

----------------------------------------------------------------------------
(* Arrays have an identity.  A polyhedron with nv vertices and nf faces is *)
(* nv + nf + 2 arrays: the vertex list, each vertex, the face list, each   *)
(* face.  Identities are numbers, handed out in the order of allocation.   *)

ArrayCount(vertices, faces) == Len(vertices.pts) + Len(faces) + 2

ArrayIds(base, vertices, faces) == base .. (base + ArrayCount(vertices, faces) - 1)

\* The arrays computeDual returns are all made inside the call:
\* normalizedVertices by dualVertices.map with a literal for each vertex,
\* dualFaces by the literal [] and each pushed face by the literal
\* [adjFaces[0]] of its walk.  firstFree is the first identity not yet in use.
returnedArrayIds(firstFree, result) ==
  IF result.status = "ok" THEN ArrayIds(firstFree, result.vertices, result.faces) ELSE {}

----------------------------------------------------------------------------
NoCall == [status |-> "none"]

\* let meshGroup = null
NoGroup == [id |-> 0, children |-> << >>, userData |-> [set |-> FALSE]]

\* main.js's State block and the page as loaded: no button is active, nothing
\* is in the scene (the lights apart), no thumbnail is made
InitView ==
  /\ catalogue = [key \in ShapeKeys |->
                    [vertices |-> polyhedra[key].vertices, faces |-> polyhedra[key].faces]]
  /\ pc = "load"
  /\ currentShape = "tetrahedron"
  /\ currentDisplay = "edges"
  /\ showDual = FALSE
  /\ meshGroup = NoGroup
  /\ scene = {}
  /\ geoms = << >>
  /\ shown = NoCall
  /\ info = NoCall
  /\ buttons = [wireframe |-> FALSE, dual |-> FALSE]
  /\ activeThumb = {}
  /\ thumbs = << >>

\* the arrays of the input are the first ones allocated
Init ==
  /\ input \in Inputs
  /\ mesh = NoCall
  /\ edges = NoCall
  /\ dual = NoCall
  /\ dual2 = NoCall
  /\ calls = << >>
  /\ nextId = ArrayCount(input.vertices, input.faces)
  /\ InitView

CallBuildColored ==
  /\ \E scale \in Scales : mesh' = buildColoredGeometry(input.vertices, input.faces, scale)
  /\ UNCHANGED <<input, edges, dual, dual2, calls, nextId>>
  /\ UNCHANGED viewVars

CallBuildEdges ==
  /\ \E scale \in Scales : edges' = buildEdgesGeometry(input.vertices, input.faces, scale)
  /\ UNCHANGED <<input, mesh, dual, dual2, calls, nextId>>
  /\ UNCHANGED viewVars

SpecBuild == Init /\ [][CallBuildColored \/ CallBuildEdges]_vars

\* one call, logged: what was passed (arg tells which polyhedron, argIds its
\* arrays), what was returned and the arrays returned
LogCall(arg, vertices, faces, argBase, result) ==
  [arg |-> arg, vertices |-> vertices, faces |-> faces,
   argIds |-> ArrayIds(argBase, vertices, faces),
   result |-> result,
   resBase |-> nextId,
   resIds |-> returnedArrayIds(nextId, result)]

\* the place in the log of the call that returned the current dual
LastDualCall ==
  CHOOSE j \in DOMAIN calls :
    calls[j].arg = "input" /\ \A h \in DOMAIN calls : calls[h].arg = "input" => h <= j

CallComputeDual ==
  /\ Len(calls) < MaxCalls
  /\ dual' = computeDual(input.vertices, input.faces)
  /\ calls' = Append(calls, LogCall("input", input.vertices, input.faces, 0, dual'))
  /\ nextId' = nextId + Cardinality(returnedArrayIds(nextId, dual'))
  /\ UNCHANGED <<input, mesh, edges, dual2>>
  /\ UNCHANGED viewVars

AllFinite(vertices) == \A k \in DOMAIN vertices.pts : VecFinite(vertices.pts[k])

\* the dual of the dual: the last dual, when it is a polyhedron of real
\* points, is passed back in
CallComputeDualOfDual ==
  /\ Len(calls) < MaxCalls
  /\ dual.status = "ok"
  /\ AllFinite(dual.vertices)
  /\ dual2' = computeDual(dual.vertices, dual.faces)
  /\ calls' = Append(calls, LogCall("dual", dual.vertices, dual.faces,
                                    calls[LastDualCall].resBase, dual2'))
  /\ nextId' = nextId + Cardinality(returnedArrayIds(nextId, dual2'))
  /\ UNCHANGED <<input, mesh, edges, dual>>
  /\ UNCHANGED viewVars

SpecDual == Init /\ [][CallComputeDual \/ CallComputeDualOfDual]_vars

\* The three functions called on face lists with one index out of range:
\* entry k of face f of a solid replaced by the number of vertices or by -1,
\* for every f and k; the two solids themselves for comparison.
WithIndex(p, f, k, i) == [p EXCEPT !.faces[f][k] = i]

OutOfRangeOf(p) == {Len(p.vertices.pts), -1}

FaultyOf(name, p) ==
  UNION {{Named(name \o "/" \o ToString(f) \o "/" \o ToString(k) \o "/" \o ToString(i),
                WithIndex(p, f, k, i)) :
            k \in 1 .. Len(p.faces[f]), i \in OutOfRangeOf(p)} : f \in 1 .. Len(p.faces)}

FaultyInputs ==
  {Named("tetrahedron", tetrahedron), Named("cube", cube)}
    \cup FaultyOf("tetrahedron", tetrahedron) \cup FaultyOf("cube", cube)

InitFaulty ==
  /\ input \in FaultyInputs
  /\ mesh = NoCall
  /\ edges = NoCall
  /\ dual = NoCall
  /\ dual2 = NoCall
  /\ calls = << >>
  /\ nextId = ArrayCount(input.vertices, input.faces)
  /\ InitView

SpecFaults == InitFaulty /\ [][CallBuildColored \/ CallBuildEdges \/ CallComputeDual]_vars

----------------------------------------------------------------------------
(* The viewer: main.js's selection state, createPolyhedron, updateDisplay  *)
(* and the click handlers.  An object of the scene graph is known by a     *)
(* number (groups, geometries) or by its name in userData.                 *)

MaxGroups == 3      \* createPolyhedron calls in one run

\* Object.entries(polyhedra), platonic section then archimedean section
ThumbKeys ==
  <<"tetrahedron", "cube", "octahedron", "dodecahedron", "icosahedron",
    "truncatedTetrahedron", "cuboctahedron", "truncatedOctahedron">>

\* dualNames[key]
dualNames(key) ==
  CASE key = "tetrahedron" -> "Tetrahedron"
    [] key = "cube" -> "Octahedron"
    [] key = "octahedron" -> "Cube"
    [] key = "dodecahedron" -> "Icosahedron"
    [] key = "icosahedron" -> "Dodecahedron"
    [] key = "truncatedTetrahedron" -> "Triakis Tetrahedron"
    [] key = "cuboctahedron" -> "Rhombic Dodecahedron"
    [] OTHER -> "Tetrakis Hexahedron"

\* an entry with its first face reversed by the call that read it
argumentsFirstFaceReversed(data, dualFlag) ==
  IF dualFlag /\ data.faces # << >>
    THEN [data EXCEPT !.faces[1] = Reverse(@)] ELSE data

\* polyhedra[currentShape] after createPolyhedron or generateThumbnail has
\* passed its vertices and faces to computeDual and the builders: the three
\* functions assign to no element of their arguments (what they push to,
\* divide in place or reverse are arrays made inside the call)
argumentsAfterCalls(data, dualFlag) == data

\* the dual taken of what is shown, when something is, and not of the entry
displayedDataOfShown(data, dualFlag) ==
  IF dualFlag
    THEN IF shown.status = "ok" THEN computeDual(shown.vertices, shown.faces)
         ELSE computeDual(data.vertices, data.faces)
  ELSE [status |-> "ok", vertices |-> data.vertices, faces |-> data.faces]

\* "let vertices = data.vertices ... if (showDual) { ... }": what the builders
\* are given, or that computeDual did not return
displayedData(data, dualFlag) ==
  IF dualFlag THEN computeDual(data.vertices, data.faces)
  ELSE [status |-> "ok", vertices |-> data.vertices, faces |-> data.faces]

\* updateShapeInfo(vertices, faces): the name and the three counts written
updateShapeInfo(shape, dualFlag, vertices, faces) ==
  [status |-> "ok",
   name |-> IF dualFlag THEN dualNames(shape) ELSE polyhedra[shape].name,
   vertices |-> Len(vertices.pts),
   edges |-> shapeInfoEdges(faces),
   faces |-> Len(faces)]

\* the geometry of a child of a group: solidMesh has the colored geometry,
\* edgesLine and wireframeLine share the edges geometry
childGeometry(group, child) ==
  IF child = "solidMesh" THEN group.userData.geometry ELSE group.userData.edgesGeometry

\* meshGroup.traverse(child => { if (child.geometry) child.geometry.dispose() }):
\* the group itself has no geometry, its children at that moment are visited
disposeTraversed(group, gs) ==
  [i \in 1 .. Len(gs) |->
     IF \E c \in 1 .. Len(group.children) : childGeometry(group, group.children[c]) = i
       THEN [gs[i] EXCEPT !.disposed = TRUE] ELSE gs[i]]

\* updateDisplay's children of the group: clear(), then the wireframe line or
\* the solid mesh and the edges line; userData of a group that was never
\* filled holds undefined, and add(undefined) adds nothing
displayChildren(userData, display) ==
  IF ~userData.set THEN << >>
  ELSE IF display = "wireframe" THEN <<"wireframeLine">>
  ELSE <<"solidMesh", "edgesLine">>

\* a geometry createPolyhedron made for group id
NewGeometry(kind, id) == [kind |-> kind, group |-> id, disposed |-> FALSE]


\* createPolyhedron from "meshGroup = new THREE.Group()" on: id is the new
\* group, sc and gs the scene and the geometries after "Remove existing
\* group", d, g and e what computeDual (or the entry itself), buildColoredGeometry
\* and buildEdgesGeometry returned.  A call that throws ends the handler: the
\* new group stays empty, with no userData, outside the scene.
polyhedronCreated(shape, dualFlag, display, id, sc, gs, d, g, e) ==
  IF d.status # "ok" \/ g.status # "ok"
    THEN [thrown |-> TRUE, scene |-> sc, geoms |-> gs, shown |-> shown, info |-> info,
          meshGroup |-> [id |-> id, children |-> << >>, userData |-> [set |-> FALSE]]]
  ELSE IF e.status # "ok"
    THEN [thrown |-> TRUE, scene |-> sc, shown |-> shown, info |-> info,
          geoms |-> Append(gs, NewGeometry("colored", id)),
          meshGroup |-> [id |-> id, children |-> << >>, userData |-> [set |-> FALSE]]]
  ELSE [thrown |-> FALSE,
        scene |-> sc \cup {id},
        geoms |-> gs \o <<NewGeometry("colored", id), NewGeometry("edges", id)>>,
        shown |-> [status |-> "ok", vertices |-> d.vertices, faces |-> d.faces],
        info |-> updateShapeInfo(shape, dualFlag, d.vertices, d.faces),
        meshGroup |-> [id |-> id,
                       children |-> displayChildren([set |-> TRUE], display),
                       userData |-> [set |-> TRUE,
                                     geometry |-> Len(gs) + 1,
                                     edgesGeometry |-> Len(gs) + 2,
                                     positions |-> Len(g.position),
                                     segments |-> Len(e.position)]]]

\* the two builder calls, with scale = 1.5
polyhedronBuilt(shape, dualFlag, display, id, sc, gs, d) ==
  polyhedronCreated(shape, dualFlag, display, id, sc, gs, d,
                    buildColoredGeometry(d.vertices, d.faces, DefaultScale),
                    buildEdgesGeometry(d.vertices, d.faces, DefaultScale))

\* createPolyhedron(), read with currentShape = shape, showDual = dualFlag and
\* currentDisplay = display: what it leaves of the scene graph
createPolyhedron(shape, dualFlag, display) ==
  polyhedronBuilt(shape, dualFlag, display, meshGroup.id + 1,
                  IF meshGroup # NoGroup THEN scene \ {meshGroup.id} ELSE scene,
                  IF meshGroup # NoGroup THEN disposeTraversed(meshGroup, geoms) ELSE geoms,
                  displayedData(catalogue[shape], dualFlag))

\* the scene graph and the catalogue after a createPolyhedron that left r
Created(r, shape, dualFlag) ==
  /\ meshGroup' = r.meshGroup
  /\ scene' = r.scene
  /\ geoms' = r.geoms
  /\ shown' = r.shown
  /\ info' = r.info
  /\ catalogue' = [catalogue EXCEPT ![shape] = argumentsAfterCalls(@, dualFlag)]

\* generateThumbnail's scale
ThumbScale == Fin(6, 0, 5)

\* generateThumbnail(key): the two geometries built at scale 1.2 and the gray
\* one made of their attributes, all three disposed before it returns
thumbnailOf(key, g, e) ==
  [key |-> key, status |-> IF g.status = "ok" /\ e.status = "ok" THEN "ok" ELSE "throws",
   positions |-> Len(g.position), segments |-> Len(e.position),
   built |-> 3, disposed |-> 3]

generateThumbnail(key, data) ==
  thumbnailOf(key, buildColoredGeometry(data.vertices, data.faces, ThumbScale),
              buildEdgesGeometry(data.vertices, data.faces, ThumbScale))

\* the Initialize block: generateUI() makes a thumbnail of every entry, the
\* one of currentShape active; then createPolyhedron()
Initialize ==
  /\ pc = "load"
  /\ pc' = "ready"
  /\ thumbs' = [k \in 1 .. Len(ThumbKeys) |->
                  generateThumbnail(ThumbKeys[k], catalogue[ThumbKeys[k]])]
  /\ activeThumb' = {currentShape}
  /\ Created(createPolyhedron(currentShape, showDual, currentDisplay), currentShape, showDual)
  /\ UNCHANGED <<currentShape, currentDisplay, showDual, buttons>>
  /\ UNCHANGED <<input, mesh, edges, dual, dual2, calls, nextId>>

\* selectShape(key), the click handler of a thumbnail
SelectShape(key) ==
  /\ pc = "ready"
  /\ meshGroup.id < MaxGroups
  /\ activeThumb' = {key}
  /\ currentShape' = key
  /\ Created(createPolyhedron(key, showDual, currentDisplay), key, showDual)
  /\ UNCHANGED <<pc, currentDisplay, showDual, buttons, thumbs>>
  /\ UNCHANGED <<input, mesh, edges, dual, dual2, calls, nextId>>

\* a wireframe handler that ends on createPolyhedron() where updateDisplay()
\* stands
ToggleWireframeRebuilding ==
  /\ pc = "ready"
  /\ meshGroup.id < MaxGroups
  /\ currentDisplay' = IF currentDisplay = "wireframe" THEN "edges" ELSE "wireframe"
  /\ buttons' = [buttons EXCEPT !.wireframe = (currentDisplay # "wireframe")]
  /\ Created(createPolyhedron(currentShape, showDual, currentDisplay'), currentShape, showDual)
  /\ UNCHANGED <<pc, currentShape, showDual, activeThumb, thumbs>>
  /\ UNCHANGED <<input, mesh, edges, dual, dual2, calls, nextId>>

\* the click handler of #wireframe-toggle
ToggleWireframe ==
  /\ pc = "ready"
  /\ currentDisplay' = IF currentDisplay = "wireframe" THEN "edges" ELSE "wireframe"
  /\ buttons' = [buttons EXCEPT !.wireframe = (currentDisplay # "wireframe")]
  /\ meshGroup' = IF meshGroup = NoGroup THEN meshGroup
                  ELSE [meshGroup EXCEPT
                          !.children = displayChildren(meshGroup.userData, currentDisplay')]
  /\ UNCHANGED <<catalogue, pc, currentShape, showDual, scene, geoms, shown, info,
                 activeThumb, thumbs>>
  /\ UNCHANGED <<input, mesh, edges, dual, dual2, calls, nextId>>

\* the click handler of #dual-toggle
ToggleDual ==
  /\ pc = "ready"
  /\ meshGroup.id < MaxGroups
  /\ showDual' = ~showDual
  /\ buttons' = [buttons EXCEPT !.dual = ~showDual]
  /\ Created(createPolyhedron(currentShape, ~showDual, currentDisplay), currentShape, ~showDual)
  /\ UNCHANGED <<pc, currentShape, currentDisplay, activeThumb, thumbs>>
  /\ UNCHANGED <<input, mesh, edges, dual, dual2, calls, nextId>>

\* the page: the module is loaded with the tetrahedron selected
InitPage ==
  /\ input = Named("tetrahedron", tetrahedron)
  /\ mesh = NoCall /\ edges = NoCall /\ dual = NoCall /\ dual2 = NoCall
  /\ calls = << >>
  /\ nextId = ArrayCount(input.vertices, input.faces)
  /\ InitView

Next ==
  \/ Initialize
  \/ \E key \in ShapeKeys : SelectShape(key)
  \/ ToggleWireframe
  \/ ToggleDual

Spec == InitPage /\ [][Next]_vars

----------------------------------------------------------------------------
(* Properties of the geometry builders, over SpecBuild *)

\* the unordered index pairs that are cyclically consecutive in some face
UndirectedEdges(faces) ==
  UNION {{{At(faces[f], i - 1), NextIn(faces[f], i - 1)} : i \in 1 .. Len(faces[f])} :
           f \in 1 .. Len(faces)}

\* every index of every face is an index of vertices
IndicesInRange(vertices, faces) ==
  \A f \in 1 .. Len(faces) : \A k \in 1 .. Len(faces[f]) : InRange(faces[f][k], vertices.pts)

\* the numbers position[from + 1 .. from + 3] are the point of index i, scaled
PointAt(position, from, vertices, i, scale) ==
  \A k \in 1 .. 3 : position[from + k] = Mul(At(vertices.pts, i)[k], scale)

\* segment j of a position buffer joins the points of indices a and b
Joins(position, j, vertices, a, b, scale) ==
  /\ PointAt(position, 6 * (j - 1), vertices, a, scale)
  /\ PointAt(position, 6 * (j - 1) + 3, vertices, b, scale)

\* C1: buildEdgesGeometry emits each unique undirected edge exactly once: the
\* number of segments is the number of distinct unordered index pairs {a, b}
\* that are cyclically consecutive in some face, each pair is joined by exactly
\* one segment, and the cube's 6 quads give 12 segments (72 numbers), not 24.
\* The call throws exactly when a face holds an index that is no vertex.
C1_EachEdgeOnce ==
  /\ edges.status = "ok" =>
       /\ Len(edges.position) = 6 * Cardinality(UndirectedEdges(input.faces))
       /\ \E scale \in Scales :
            \A e \in UndirectedEdges(input.faces) :
              Cardinality({j \in 1 .. (Len(edges.position) \div 6) :
                             \E a \in e, b \in e :
                               e = {a, b} /\ Joins(edges.position, j, input.vertices, a, b, scale)})
                = 1
       /\ input.key = "cube" => Len(edges.position) = 6 * 12
  /\ edges.status = "throws" <=>
       (edges.status # "none" /\ ~IndicesInRange(input.vertices, input.faces))

\* buildEdgesGeometry has drawn the cube: 12 segments
C1_Witness ==
  input.key = "cube" /\ edges.status = "ok" /\ Len(edges.position) = 72

\* the sum of ints[lo .. hi], by halves
RECURSIVE SumInts(_, _, _)
SumInts(ints, lo, hi) ==
  IF lo > hi THEN 0
  ELSE IF lo = hi THEN ints[lo]
  ELSE SumInts(ints, lo, (lo + hi) \div 2) + SumInts(ints, (lo + hi) \div 2 + 1, hi)

\* the number of fan triangles n - 2 of the first upTo faces together
TriangleCount(faces, upTo) == SumInts([f \in 1 .. Len(faces) |-> Len(faces[f]) - 2], 1, upTo)

\* triangle t of a position buffer is (v0, vi, vi+1) of face
IsFanTriangle(position, t, vertices, face, i, scale) ==
  /\ PointAt(position, 9 * (t - 1), vertices, At(face, 0), scale)
  /\ PointAt(position, 9 * (t - 1) + 3, vertices, At(face, i), scale)
  /\ PointAt(position, 9 * (t - 1) + 6, vertices, At(face, i + 1), scale)

\* C2: buildColoredGeometry triangulates every face of n vertices into exactly
\* n - 2 triangles, the i-th being (v0, vi, vi+1) for i in 1 .. n-2, so the
\* position, color and normal buffers each hold 9 * (sum over the faces of n - 2)
\* numbers and have equal length.
C2_FanTriangulation ==
  mesh.status = "ok" =>
    /\ Len(mesh.position) = 9 * TriangleCount(input.faces, Len(input.faces))
    /\ Len(mesh.color) = Len(mesh.position)
    /\ Len(mesh.normal) = Len(mesh.position)
    /\ \E scale \in Scales :
         \A f \in 1 .. Len(input.faces) :
           \A i \in 1 .. (Len(input.faces[f]) - 2) :
             IsFanTriangle(mesh.position, TriangleCount(input.faces, f - 1) + i,
                           input.vertices, input.faces[f], i, scale)

\* buildColoredGeometry has built the dodecahedron: 12 pentagons, 36 triangles
C2_Witness ==
  input.key = "dodecahedron" /\ mesh.status = "ok" /\ Len(mesh.position) = 9 * 36

\* the catalogue's entries
IsCatalogueEntry(p) == p.key \in ShapeKeys /\ p.vertices = polyhedra[p.key].vertices
                       /\ p.faces = polyhedra[p.key].faces

\* len(edges) = len(vertices) + len(faces) - 2 for the edges counted from the
\* face list and for the segments buildEdgesGeometry draws
EulerHolds(p, drawn) ==
  /\ shapeInfoEdges(p.faces) = Len(p.vertices.pts) + Len(p.faces) - 2
  /\ drawn.status = "ok" => Len(drawn.position) = 6 * (Len(p.vertices.pts) + Len(p.faces) - 2)

\* C3 as stated: for every polyhedron in the catalogue, also the entries whose
\* faces list is empty, the number of unique edges derived from its face list
\* is len(vertices) + len(faces) - 2.
C3_EulerEveryEntry == IsCatalogueEntry(input) => EulerHolds(input, edges)

\* C3, amended: for every polyhedron in the catalogue whose faces list is not
\* empty, the number of unique edges derived from its face list is
\* len(vertices) + len(faces) - 2 (Euler's formula).
C3_EulerEntriesWithFaces ==
  (IsCatalogueEntry(input) /\ input.faces # << >>) => EulerHolds(input, edges)

\* the icosahedron's 30 edges are drawn: 12 + 20 - 2
C3_Witness ==
  /\ input.key = "icosahedron" /\ edges.status = "ok"
  /\ Len(edges.position) = 6 * 30 /\ shapeInfoEdges(input.faces) = 30

----------------------------------------------------------------------------
(* Properties of computeDual, over SpecDual.  They are stated of the last  *)
(* logged call: every call is the last one in the state it leads to.       *)

HasCall == calls # << >>

\* the polyhedron passed to the last call, what it returned
LastArg == [vertices |-> calls[Len(calls)].vertices, faces |-> calls[Len(calls)].faces]
LastResult == calls[Len(calls)].result

\* the number of faces listing vertex index v
Degree(faces, v) == Cardinality({f \in 1 .. Len(faces) : SeqIncludes(faces[f], v)})

NoRepeats(seq) == \A i \in 1 .. Len(seq) : \A j \in 1 .. Len(seq) : seq[i] = seq[j] => i = j

\* indices in range, faces of at least 3 distinct vertices
WellFormed(p) ==
  /\ IndicesInRange(p.vertices, p.faces)
  /\ \A f \in 1 .. Len(p.faces) : Len(p.faces[f]) >= 3 /\ NoRepeats(p.faces[f])

\* the side of the plane of face f (through its first vertex, normal the
\* cross product of its first two edges) a point lies on: 1, 0, -1
SideOf(p, f, pt) ==
  Sgn(dot(edgeCross(FaceVerts(p.vertices, p.faces[f])),
          sub(pt, At(p.vertices.pts, At(p.faces[f], 0)))))

\* every vertex of every face lies on the face's plane
PlanarFaces(p) ==
  \A f \in 1 .. Len(p.faces) : \A k \in 1 .. Len(p.faces[f]) :
    SideOf(p, f, At(p.vertices.pts, p.faces[f][k])) = 0

\* no face's plane passes through the origin (a face whose first three
\* vertices are collinear has no plane)
NoFaceThroughOrigin(p) == \A f \in 1 .. Len(p.faces) : SideOf(p, f, ZeroVec) # 0

\* every edge is shared by exactly two faces
Closed(p) ==
  \A j \in 1 .. Len(EdgeTurns(p.faces)) :
    Cardinality({h \in 1 .. Len(EdgeTurns(p.faces)) :
                   EdgeTurns(p.faces)[h].key = EdgeTurns(p.faces)[j].key}) = 2

\* no vertex lies beyond the plane of a face: all are on the plane or on the
\* side s of it
ConvexAt(p, f, s) ==
  \A k \in 1 .. Len(p.vertices.pts) : SideOf(p, f, p.vertices.pts[k]) \in {0, s}

Convex(p) == \A f \in 1 .. Len(p.faces) : ConvexAt(p, f, 1) \/ ConvexAt(p, f, -1)

\* the origin is strictly inside: for every face, on the side the solid is on
OriginInside(p) ==
  \A f \in 1 .. Len(p.faces) :
    \E s \in {1, -1} : SideOf(p, f, ZeroVec) = s /\ ConvexAt(p, f, s)

\* every point of the vertex list is a vertex of the solid: some face lists it
AllVerticesListed(p) ==
  \A v \in 0 .. (Len(p.vertices.pts) - 1) : Degree(p.faces, v) >= 1

\* a closed convex solid with planar faces
ClosedConvexSolid(p) ==
  /\ WellFormed(p) /\ p.faces # << >> /\ Closed(p) /\ PlanarFaces(p) /\ Convex(p)
  /\ AllVerticesListed(p)

\* the vertex indices with at least 3 incident faces, ascending
HighDegreeVertices(p) ==
  SortedSeq({v \in 0 .. (Len(p.vertices.pts) - 1) : Degree(p.faces, v) >= 3})

\* one dual vertex per face and one dual face per vertex with at least 3
\* incident faces, listing exactly the faces incident to it
DualCounts(p, result) ==
  /\ result.status = "ok"
  /\ Len(result.vertices.pts) = Len(p.faces)
  /\ Len(result.faces) = Len(HighDegreeVertices(p))
  /\ \A j \in 1 .. Len(result.faces) :
       /\ Len(result.faces[j]) = Degree(p.faces, HighDegreeVertices(p)[j])
       /\ {result.faces[j][k] : k \in 1 .. Len(result.faces[j])}
            = {f - 1 : f \in {g \in 1 .. Len(p.faces) :
                                SeqIncludes(p.faces[g], HighDegreeVertices(p)[j])}}

\* dual vertex f is the image of face f: a finite dual vertex lies on the line
\* through the origin along the face's normal
ImageOfItsFace(p, result) ==
  \A f \in 1 .. Len(p.faces) :
    VecFinite(result.vertices.pts[f]) =>
      cross(result.vertices.pts[f], edgeCross(FaceVerts(p.vertices, p.faces[f]))) = ZeroVec

\* C4 as stated: computeDual returns exactly one dual vertex per input face, at
\* the index of that face, and exactly one dual face per input vertex with at
\* least 3 incident faces; a vertex with fewer than 3 incident faces (or none)
\* yields no dual face and no error; each dual face has as many indices as its
\* vertex has incident faces.
C4_DualCounts ==
  (HasCall /\ WellFormed(LastArg)) =>
    DualCounts(LastArg, LastResult) /\ ImageOfItsFace(LastArg, LastResult)

\* C4 with the empty face list set aside: the same, for a polyhedron that has
\* at least one face.
C4_DualCountsWithFaces ==
  (HasCall /\ WellFormed(LastArg) /\ LastArg.faces # << >>) =>
    DualCounts(LastArg, LastResult) /\ ImageOfItsFace(LastArg, LastResult)

\* a call on the open tetrahedron returned: vertex 0 has 3 faces, the others 2
C4_Witness ==
  /\ HasCall /\ input.key = "tetrahedronOpen" /\ calls[Len(calls)].arg = "input"
  /\ LastResult.status = "ok" /\ Len(LastResult.faces) = 1

\* C5: the dual of the cube has 6 vertices and 8 faces, all triangles, and the
\* dual of the tetrahedron has 4 vertices and 4 triangular faces; each dual
\* vertex is the image of exactly one face (it lies along that face's normal,
\* and no two dual vertices coincide).
C5_CubeAndTetrahedron ==
  (dual.status # "none" /\ input.key \in {"cube", "tetrahedron"}) =>
    /\ dual.status = "ok"
    /\ Len(dual.vertices.pts) = (IF input.key = "cube" THEN 6 ELSE 4)
    /\ Len(dual.faces) = (IF input.key = "cube" THEN 8 ELSE 4)
    /\ \A j \in 1 .. Len(dual.faces) : Len(dual.faces[j]) = 3
    /\ AllFinite(dual.vertices)
    /\ ImageOfItsFace(input, dual)
    /\ NoRepeats(dual.vertices.pts)

\* the dual of the cube has been computed
C5_Witness == input.key = "cube" /\ dual.status = "ok" /\ Len(dual.faces) = 8

\* C6: for a closed convex solid with planar faces, the dual of the dual has as
\* many vertices, faces and unique edges as the solid.
C6_DualOfDualCounts ==
  (dual2.status # "none" /\ ClosedConvexSolid(input)) =>
    /\ dual2.status = "ok"
    /\ Len(dual2.vertices.pts) = Len(input.vertices.pts)
    /\ Len(dual2.faces) = Len(input.faces)
    /\ shapeInfoEdges(dual2.faces) = shapeInfoEdges(input.faces)

\* the dual of the dual of the dodecahedron: 20 vertices, 12 faces, 30 edges
C6_Witness ==
  /\ input.key = "dodecahedron" /\ dual2.status = "ok"
  /\ Len(dual2.vertices.pts) = 20 /\ Len(dual2.faces) = 12
  /\ shapeInfoEdges(dual2.faces) = 30

\* the returned dual as a polyhedron
ResultSolid(result) == [vertices |-> result.vertices, faces |-> result.faces]

\* the order the walk around the vertex of dual face j left, before the
\* orientation step
WalkedOrder(p, j) ==
  orderFaces(p.faces, HighDegreeVertices(p)[j],
             vertexToFaces(p.faces, HighDegreeVertices(p)[j]),
             <<vertexToFaces(p.faces, HighDegreeVertices(p)[j])[1]>>, FALSE).ordered

\* every returned face has a Newell normal with a strictly positive dot product
\* with its centroid
OutwardFaces(result) ==
  \A j \in 1 .. Len(result.faces) :
    Gt0(orientationDot(result.vertices.pts, result.faces[j]))

\* a face is returned reversed exactly when its walked order gives a negative
\* dot product, and as walked otherwise
ReversedWhenNegative(p, result) ==
  \A j \in 1 .. Len(result.faces) :
    result.faces[j] =
      IF Lt0(orientationDot(result.vertices.pts, WalkedOrder(p, j)))
        THEN Reverse(WalkedOrder(p, j)) ELSE WalkedOrder(p, j)

OnPolarPlane(p, result, j) ==
  \A k \in 1 .. Len(result.faces[j]) :
    dot(At(result.vertices.pts, result.faces[j][k]),
        At(p.vertices.pts, HighDegreeVertices(p)[j])) = N(1)

\* argument vertex 0 is the origin, the factor of the rescale is 0 and the
\* vertices of dual face j are returned as the one point 0
CollapsedToOrigin(p, result, j) ==
  /\ IsZero(Norm2(At(p.vertices.pts, 0)))
  /\ \A k \in 1 .. Len(result.faces[j]) :
       IsZero(Norm2(At(result.vertices.pts, result.faces[j][k])))

\* C8: when the original faces are exactly planar and none passes through the
\* origin, all dual vertices belonging to the dual face of original vertex v
\* lie on one common plane: before the rescale each such dual vertex p
\* satisfies p . v = r^2, r^2 the midsphere radius squared.
C8_DualFacesPlanar ==
  (/\ HasCall /\ WellFormed(LastArg)
   /\ PlanarFaces(LastArg) /\ NoFaceThroughOrigin(LastArg)
   /\ LastResult.status = "ok") =>
    \A j \in 1 .. Len(LastResult.faces) :
      OnPolarPlane(LastArg, LastResult, j) \/ CollapsedToOrigin(LastArg, LastResult, j)

\* the dual of the cube wound inward is returned: 8 dual faces, each on the
\* polar plane of its vertex
C8_Witness ==
  /\ HasCall /\ input.key = "cubeInward" /\ calls[Len(calls)].arg = "input"
  /\ LastResult.status = "ok" /\ Len(LastResult.faces) = 8
  /\ PlanarFaces(LastArg) /\ NoFaceThroughOrigin(LastArg)
  /\ \A j \in 1 .. 8 : OnPolarPlane(LastArg, LastResult, j)

\* C9: the output of computeDual satisfies the Polyhedron invariant: every
\* index in every dual face lies in [0, number of dual vertices), no dual face
\* repeats an index, and for a closed convex input (every edge shared by
\* exactly two faces) every edge of the dual is shared by exactly two dual
\* faces.
C9_OutputIsPolyhedron ==
  (HasCall /\ LastResult.status = "ok") =>
    /\ IndicesInRange(LastResult.vertices, LastResult.faces)
    /\ \A j \in 1 .. Len(LastResult.faces) : NoRepeats(LastResult.faces[j])
    /\ ClosedConvexSolid(LastArg) => Closed(ResultSolid(LastResult))

\* the dual of the icosahedron is returned: 12 pentagons over
\* 20 dual vertices, 30 dual edges each in two dual faces
C9_Witness ==
  /\ HasCall /\ input.key = "icosahedron" /\ calls[Len(calls)].arg = "input"
  /\ LastResult.status = "ok" /\ ClosedConvexSolid(LastArg)
  /\ Len(LastResult.faces) = 12 /\ \A j \in 1 .. 12 : Len(LastResult.faces[j]) = 5
  /\ Closed(ResultSolid(LastResult)) /\ shapeInfoEdges(LastResult.faces) = 30

----------------------------------------------------------------------------
(* More properties of the geometry builders, over SpecBuild *)

\* the table of the claim, a color as its red, green and blue bytes
TableColor(sides) ==
  CASE sides = 3  -> <<231, 76, 60>>      \* red 0xe74c3c
    [] sides = 4  -> <<52, 152, 219>>     \* blue 0x3498db
    [] sides = 5  -> <<46, 204, 113>>     \* green 0x2ecc71
    [] sides = 6  -> <<243, 156, 18>>     \* orange 0xf39c12
    [] sides = 8  -> <<155, 89, 182>>     \* purple 0x9b59b6
    [] sides = 10 -> <<26, 188, 156>>     \* teal 0x1abc9c
    [] OTHER      -> <<136, 136, 136>>    \* gray 0x888888

\* C13: every face is colored by its side count from the fixed table (3 red,
\* 4 blue, 5 green, 6 orange, 8 purple, 10 teal), any other side count gets the
\* gray fallback, and all emitted vertices of one face carry the same color.
C13_ColorBySideCount ==
  mesh.status = "ok" =>
    \A f \in 1 .. Len(input.faces) :
      \A v \in 1 .. 3 * (Len(input.faces[f]) - 2) : \A c \in 1 .. 3 :
        mesh.color[9 * TriangleCount(input.faces, f - 1) + 3 * (v - 1) + c]
          = TableColor(Len(input.faces[f]))[c]

\* the heptagon is built: 5 triangles, 15 vertices, all gray
C13_Witness ==
  /\ input.key = "heptagon" /\ mesh.status = "ok" /\ Len(mesh.color) = 45
  /\ \A v \in 1 .. 15 : mesh.color[3 * v] = 136

----------------------------------------------------------------------------
(* More properties of computeDual, over SpecDual *)

\* face has the edge between vertex indices a and b, in either direction
HasEdge(face, a, b) ==
  \E i \in 1 .. Len(face) : {face[i], face[(i % Len(face)) + 1]} = {a, b}

\* faces f and g (0-based) are two faces with a common edge that has vertex
\* index v as an endpoint
ShareEdgeAt(p, f, g, v) ==
  /\ f # g
  /\ \E i \in 1 .. Len(At(p.faces, f)) :
       /\ HasEdge(At(p.faces, f), v, At(p.faces, f)[i])
       /\ HasEdge(At(p.faces, g), v, At(p.faces, f)[i])

\* dual face j is a cycle of faces around its vertex
IsCycleAround(p, face, v) ==
  \A k \in 1 .. Len(face) : ShareEdgeAt(p, face[k], face[(k % Len(face)) + 1], v)

\* C14: for a closed convex input, in every dual face each pair of cyclically
\* consecutive entries (including last to first) are two original faces that
\* share an edge having the dual face's original vertex as an endpoint.
C14_DualFaceIsCycle ==
  (HasCall /\ ClosedConvexSolid(LastArg)) =>
    /\ LastResult.status = "ok"
    /\ \A j \in 1 .. Len(LastResult.faces) :
         IsCycleAround(LastArg, LastResult.faces[j], HighDegreeVertices(LastArg)[j])

\* the dual of the icosahedron is returned: 12 dual faces, each a cycle of the
\* 5 faces around a vertex
C14_Witness ==
  /\ HasCall /\ input.key = "icosahedron" /\ calls[Len(calls)].arg = "input"
  /\ LastResult.status = "ok" /\ Len(LastResult.faces) = 12
  /\ \A j \in 1 .. 12 :
       /\ Len(LastResult.faces[j]) = 5
       /\ IsCycleAround(LastArg, LastResult.faces[j], HighDegreeVertices(LastArg)[j])

\* the walk of step 4 around vertex index v of p, from its first incident face
WalkAround(p, v) ==
  orderFaces(p.faces, v, vertexToFaces(p.faces, v), <<vertexToFaces(p.faces, v)[1]>>, FALSE)

\* the safety branch runs in no walk of the call on p
NoWalkFellBack(p) ==
  \A j \in 1 .. Len(HighDegreeVertices(p)) :
    /\ ~WalkAround(p, HighDegreeVertices(p)[j]).fellBack
    /\ ~WalkAround(p, HighDegreeVertices(p)[j]).hangs

\* C15: for a valid closed convex polyhedron the walk never stalls: the
\* fallback (safety) branch is executed for no vertex, and the call returns.
C15_FallbackNeverRuns ==
  (HasCall /\ ClosedConvexSolid(LastArg)) =>
    (LastResult.status = "ok" /\ NoWalkFellBack(LastArg))

\* the dual of the dodecahedron is computed, twenty walks of three faces, and
\* the dual of that, twelve walks of five faces, none through the safety branch
C15_Witness ==
  /\ Len(calls) >= 2 /\ input.key = "dodecahedron"
  /\ calls[Len(calls)].arg = "dual" /\ LastResult.status = "ok"
  /\ Len(HighDegreeVertices(LastArg)) = 12
  /\ \A j \in 1 .. 12 : Len(WalkAround(LastArg, HighDegreeVertices(LastArg)[j]).ordered) = 5
  /\ NoWalkFellBack(LastArg)

\* The dual vertex of face f, as the result carries it: result.vertices.pts[f]
\* is the vertex of step 2 in units of the midsphere radius (r2 = 1), the
\* common factor of step 5 being kept apart in unit2.  FaceCross(p, f) is
\* the normal before it is divided by its length.
FaceCross(p, f) == edgeCross(FaceVerts(p.vertices, p.faces[f]))
FaceFirst(p, f) == At(p.vertices.pts, At(p.faces[f], 0))
FaceCentroidSide(p, f) ==
  IF Gt0(dot(faceCentroid(FaceVerts(p.vertices, p.faces[f])), FaceCross(p, f))) THEN 1 ELSE -1

\* q lies on the line of the face normal, at distance r2 / |d| from the
\* origin: |q|^2 (v0 . c)^2 = |c|^2 when r2 = 1 and d = (v0 . c) / |c|
AtPolarDistance(p, f, q) ==
  /\ \A k \in 1 .. 3 : IsZero(cross(q, FaceCross(p, f))[k])
  /\ IsZero(Sub(Mul(Norm2(q), Mul(dot(FaceFirst(p, f), FaceCross(p, f)),
                                  dot(FaceFirst(p, f), FaceCross(p, f)))),
                Norm2(FaceCross(p, f))))

\* the calls C16 is stated of: the call returned, on faces of at least 3
\* distinct vertices in range, with argument vertex 0 off the origin
DualVerticesKept ==
  /\ HasCall /\ LastResult.status = "ok" /\ WellFormed(LastArg)
  /\ ~IsZero(Norm2(At(LastArg.vertices.pts, 0)))

\* C16 as stated, d the signed distance v0 . normal: the dual vertex is
\* normal * (r2 / d) * sign, on the normal's side when sign and d have the
\* same sign, for faces wound outward and inward.
C16_SignedDistanceFormula ==
  DualVerticesKept =>
    \A f \in 1 .. Len(LastArg.faces) :
      VecFinite(LastResult.vertices.pts[f]) =>
        /\ AtPolarDistance(LastArg, f, LastResult.vertices.pts[f])
        /\ Sgn(dot(LastResult.vertices.pts[f], FaceCross(LastArg, f)))
             = FaceCentroidSide(LastArg, f) * Sgn(dot(FaceFirst(LastArg, f), FaceCross(LastArg, f)))

\* C16, amended: the dual vertex of a face is normal * (r2 / d) * sign with
\* d the absolute distance |v0 . normal| from the origin to the face's plane
\* and sign the sign of (face centroid . normal), for faces wound outward and
\* inward: it lies on the normal's line at distance r2 / d, on the normal's
\* side exactly when sign is 1.
C16_AbsoluteDistanceFormula ==
  DualVerticesKept =>
    \A f \in 1 .. Len(LastArg.faces) :
      VecFinite(LastResult.vertices.pts[f]) =>
        /\ AtPolarDistance(LastArg, f, LastResult.vertices.pts[f])
        /\ Sgn(dot(LastResult.vertices.pts[f], FaceCross(LastArg, f)))
             = FaceCentroidSide(LastArg, f)

\* the dual of the cube with one face wound inward is returned: face 2 has
\* sign -1, its dual vertex is finite and against its normal, the others
\* along theirs
C16_Witness ==
  /\ DualVerticesKept /\ input.key = "cubeOneInward" /\ calls[Len(calls)].arg = "input"
  /\ AllFinite(LastResult.vertices)
  /\ {f \in 1 .. Len(LastArg.faces) : FaceCentroidSide(LastArg, f) = -1} = {2}
  /\ \A f \in 1 .. Len(LastArg.faces) :
       Sgn(dot(LastResult.vertices.pts[f], FaceCross(LastArg, f))) = IF f = 2 THEN -1 ELSE 1

\* the squared distance from the origin of returned vertex k (1-based) and of
\* argument vertex 0, units counted in
ReturnedDist2(k) == Mul(Norm2(LastResult.vertices.pts[k]), LastResult.vertices.unit2)
ArgumentDist2 == Mul(Norm2(At(LastArg.vertices.pts, 0)), LastArg.vertices.unit2)

\* the dual vertex of face f (1-based) before step 5, in midsphere units
UnscaledDual(p, f) ==
  dualVertex(p.vertices, p.faces[f], midsphereR2(p.vertices, p.faces).units).v

\* returned vertex 0 is as far from the origin as argument vertex 0, and the
\* squared distances of the returned vertices are to one another as those of
\* the unscaled dual vertices: none is lost, and |q_f|^2 |u_0|^2 = |q_0|^2 |u_f|^2
RescaledToVertex0 ==
  /\ IsZero(Sub(ReturnedDist2(1), ArgumentDist2))
  /\ \A f \in 1 .. Len(LastArg.faces) :
       /\ VecFinite(LastResult.vertices.pts[f]) <=> VecFinite(UnscaledDual(LastArg, f))
       /\ IsZero(Norm2(LastResult.vertices.pts[f])) <=> IsZero(Norm2(UnscaledDual(LastArg, f)))
       /\ VecFinite(LastResult.vertices.pts[f]) =>
            IsZero(Sub(Mul(Norm2(LastResult.vertices.pts[f]), Norm2(UnscaledDual(LastArg, 1))),
                       Mul(Norm2(LastResult.vertices.pts[1]), Norm2(UnscaledDual(LastArg, f)))))

\* C17 as stated: whenever computeDual returns, the returned vertex 0 has the
\* same distance from the origin as the input vertex 0 and the ratios between
\* the returned vertices' distances are those of the unscaled dual.
C17_RescaleAlways ==
  (HasCall /\ LastResult.status = "ok") => RescaledToVertex0

\* the factor origDist / dualDist is a positive real: argument vertex 0 is off
\* the origin, the unscaled dual vertex 0 is finite and off the origin
FactorPositive(p) ==
  /\ ~IsZero(Norm2(At(p.vertices.pts, 0)))
  /\ VecFinite(UnscaledDual(p, 1)) /\ ~IsZero(Norm2(UnscaledDual(p, 1)))

\* C17, amended: computeDual multiplies every dual vertex by the one common
\* factor origDist / dualDist taken from vertices[0] and dualVertices[0] only,
\* so, when input vertex 0 is not the origin and dual vertex 0 is finite and
\* not the origin, the returned vertex 0 has the same distance from the origin
\* as the input vertex 0 and the ratios between returned vertices' distances
\* are those of the unscaled dual.
C17_RescaleWhenFactorPositive ==
  (HasCall /\ LastResult.status = "ok" /\ FactorPositive(LastArg)) => RescaledToVertex0

\* the dual of the cuboctahedron is returned: 14 dual vertices at two
\* different distances from the origin, the first as far as argument vertex 0
C17_Witness ==
  /\ HasCall /\ input.key = "cuboctahedron" /\ calls[Len(calls)].arg = "input"
  /\ LastResult.status = "ok" /\ FactorPositive(LastArg)
  /\ Len(LastResult.vertices.pts) = 14
  /\ \E f \in 1 .. 14 : ~IsZero(Sub(ReturnedDist2(f), ReturnedDist2(1)))
  /\ IsZero(Sub(ReturnedDist2(1), ArgumentDist2))

\* the walk around v ended having pushed each incident face once: after the
\* first face, one face a turn for Degree - 1 turns
WalkedEachOnce(p, v) ==
  /\ ~WalkAround(p, v).hangs
  /\ Len(WalkAround(p, v).ordered) - 1 = Degree(p.faces, v) - 1
  /\ NoRepeats(WalkAround(p, v).ordered)
  /\ \A k \in 1 .. Len(WalkAround(p, v).ordered) :
       SeqIncludes(At(p.faces, WalkAround(p, v).ordered[k]), v)

\* C20: the face-ordering walk of computeDual terminates: for every input
\* (indices in range) in which no face lists the same vertex index twice,
\* each turn of the walk for a vertex adds exactly one not-yet-used incident
\* face, so the walk ends after exactly degree - 1 turns and computeDual
\* returns.
C20_WalkTerminates ==
  (/\ HasCall
   /\ IndicesInRange(LastArg.vertices, LastArg.faces)
   /\ \A f \in 1 .. Len(LastArg.faces) : NoRepeats(LastArg.faces[f]))
    => /\ LastResult.status = "ok"
       /\ \A j \in 1 .. Len(HighDegreeVertices(LastArg)) :
            WalkedEachOnce(LastArg, HighDegreeVertices(LastArg)[j])

\* the faces (0-based) listing vertex index v, and the lowest of them
IncidentFaces(p, v) == {f - 1 : f \in {g \in 1 .. Len(p.faces) : SeqIncludes(p.faces[g], v)}}
LowestIncident(p, v) == CHOOSE f \in IncidentFaces(p, v) : \A g \in IncidentFaces(p, v) : f <= g

\* dual face j is the one of the j-th vertex, in ascending order of index, that
\* has at least 3 incident faces; its walk started from the lowest-indexed
\* incident face, which the returned list has first, or last when reversed
FaceOfAscendingVertex(p, result, j) ==
  /\ {result.faces[j][k] : k \in 1 .. Len(result.faces[j])}
       = IncidentFaces(p, HighDegreeVertices(p)[j])
  /\ WalkedOrder(p, j)[1] = LowestIncident(p, HighDegreeVertices(p)[j])
  /\ \/ result.faces[j][1] = LowestIncident(p, HighDegreeVertices(p)[j])
     \/ result.faces[j][Len(result.faces[j])] = LowestIncident(p, HighDegreeVertices(p)[j])

\* C24: the order of the dual faces in computeDual's output does not depend on
\* the order in which vertices are first met in the face list: dual faces are
\* emitted in ascending order of the original vertex index (skipping vertices
\* with fewer than 3 incident faces), and within a dual face the walk starts
\* from the lowest-indexed incident face.
C24_DualFacesAscending ==
  (HasCall /\ LastResult.status = "ok") =>
    /\ Len(LastResult.faces) = Len(HighDegreeVertices(LastArg))
    /\ \A j \in 1 .. Len(LastResult.faces) : FaceOfAscendingVertex(LastArg, LastResult, j)

\* the dual of the cube is returned: its first face lists the vertices 0, 3,
\* 2, 1, met in that order, and the 8 dual faces are those of 0, 1, .. 7
C24_Witness ==
  /\ HasCall /\ input.key = "cube" /\ calls[Len(calls)].arg = "input"
  /\ LastResult.status = "ok" /\ Len(LastResult.faces) = 8
  /\ LastArg.faces[1] = <<0, 3, 2, 1>>
  /\ HighDegreeVertices(LastArg) = <<0, 1, 2, 3, 4, 5, 6, 7>>
  /\ \A j \in 1 .. 8 : FaceOfAscendingVertex(LastArg, LastResult, j)

----------------------------------------------------------------------------
(* Properties of the three functions on bad indices, over SpecFaults *)

\* a call was made and threw: it returned nothing
Threw(r) == r.status = "throws"
NotReturned(r) == r.status \in {"none", "throws"}

\* C18: a face index outside [0, len(vertices)) is never silently accepted:
\* buildColoredGeometry, buildEdgesGeometry and computeDual each throw and
\* return no result when any face contains such an index, whatever its
\* position in the face.
C18_BadIndexThrows ==
  (\E f \in 1 .. Len(input.faces) : \E k \in 1 .. Len(input.faces[f]) :
     input.faces[f][k] < 0 \/ input.faces[f][k] >= Len(input.vertices.pts))
    => (NotReturned(mesh) /\ NotReturned(edges) /\ NotReturned(dual))

\* the cube with the last entry of its last face out of range, all three
\* functions called on it, all three thrown
C18_Witness ==
  /\ Len(input.vertices.pts) = 8
  /\ input.faces[Len(input.faces)][4] = Len(input.vertices.pts)
  /\ Threw(mesh) /\ Threw(edges) /\ Threw(dual)

----------------------------------------------------------------------------
(* Properties of the viewer, over Spec *)

\* the vertices and faces the catalogue was created with
CatalogueAsCreated ==
  [key \in ShapeKeys |->
     [vertices |-> polyhedra[key].vertices, faces |-> polyhedra[key].faces]]

C12_ReplacedGeometriesDisposed ==
  \A i \in 1 .. Len(geoms) : geoms[i].group # meshGroup.id => geoms[i].disposed

\* the shape in the group is one of the catalogue's entries without faces
FacelessShown ==
  /\ pc = "ready" /\ meshGroup.userData.set
  /\ shown.status = "ok" /\ shown.faces = << >> /\ shown.vertices.pts # << >>

\* C19: a polyhedron whose faces list is empty is rendered through the convex
\* hull fallback: the geometry of the mesh in the scene is built by
\* buildConvexGeometry from exactly the polyhedron's points, each multiplied
\* by scale, in the same order and number, and not from the empty face list.
C19_FacelessThroughHull ==
  FacelessShown =>
    /\ geoms[meshGroup.userData.geometry].kind = "hull"
    /\ meshGroup.userData.positions
         = 3 * Len(buildConvexGeometry(shown.vertices, DefaultScale).points)

\* the children updateDisplay leaves for a display mode
ChildrenOfMode(display) ==
  IF display = "wireframe" THEN <<"wireframeLine">> ELSE <<"solidMesh", "edgesLine">>

\* the buttons carry 'active' exactly when their mode is on
ButtonsMatch ==
  /\ buttons.wireframe = (currentDisplay = "wireframe")
  /\ buttons.dual = showDual

\* C21: after initialization and after every handled UI event (shape
\* selection, wireframe toggle, dual toggle), the displayed group contains
\* exactly the wireframe line object when the display mode is 'wireframe' and
\* exactly the solid mesh plus the edges line otherwise, and the wireframe and
\* dual buttons carry the 'active' class exactly when the mode is 'wireframe'
\* and when showDual is true.
C21_DisplayModeInvariant ==
  pc = "ready" =>
    /\ meshGroup.id \in scene
    /\ meshGroup.children = ChildrenOfMode(currentDisplay)
    /\ ButtonsMatch

\* the same, of the states whose last createPolyhedron returned
C21_DisplayModeWhenCreated ==
  (pc = "ready" /\ meshGroup.userData.set) =>
    /\ meshGroup.id \in scene
    /\ meshGroup.children = ChildrenOfMode(currentDisplay)
    /\ ButtonsMatch

\* what createPolyhedron is to give the builders for a shape and a dual flag:
\* the entry's own vertices and faces, or computeDual of them
ExpectedShown(key, dualFlag) ==
  IF dualFlag
    THEN computeDual(CatalogueAsCreated[key].vertices, CatalogueAsCreated[key].faces)
    ELSE [status |-> "ok", vertices |-> CatalogueAsCreated[key].vertices,
          faces |-> CatalogueAsCreated[key].faces]

\* C22: the displayed polyhedron depends only on the current (shape, dual
\* flag), not on the event history: in every state whose group was built, the
\* vertices and faces given to the builders are, with the dual flag off, the
\* catalogue record's own and, with it on, computeDual of the catalogue record
\* (never a dual of a dual), so toggling dual twice shows the original solid
\* again.
C22_ShownByShapeAndFlag ==
  (pc = "ready" /\ meshGroup.userData.set) =>
    shown = ExpectedShown(currentShape, showDual)

\* the dual was toggled on over the tetrahedron, then the cube selected: the
\* dual of the cube is shown, 6 vertices and 8 faces, not the dual of what was
\* shown before
C22_Witness ==
  /\ pc = "ready" /\ meshGroup.userData.set /\ meshGroup.id = 3
  /\ currentShape = "cube" /\ showDual
  /\ Len(shown.vertices.pts) = 6 /\ Len(shown.faces) = 8
  /\ shown = ExpectedShown("cube", TRUE)
  /\ shown # ExpectedShown("tetrahedron", TRUE)

\* the dual was toggled on and off again: the catalogue's own record is shown
C22_WitnessToggledTwice ==
  /\ pc = "ready" /\ meshGroup.userData.set /\ meshGroup.id = 3
  /\ currentShape = "tetrahedron" /\ ~showDual
  /\ shown.vertices = tetrahedron.vertices /\ shown.faces = tetrahedron.faces

\* what each event is to leave alone
SelectionKept == currentDisplay' = currentDisplay /\ showDual' = showDual
DualToggleKept == currentShape' = currentShape /\ currentDisplay' = currentDisplay
WireframeToggleKept ==
  /\ currentShape' = currentShape /\ showDual' = showDual
  /\ geoms' = geoms                    \* none built, none disposed
  /\ meshGroup'.id = meshGroup.id /\ meshGroup'.userData = meshGroup.userData
  /\ scene' = scene /\ shown' = shown

\* C23: each UI event changes only its own part of the selection state:
\* selecting a shape leaves the display mode and the dual flag unchanged, the
\* dual toggle leaves the shape and the display mode unchanged, and the
\* wireframe toggle leaves the shape and the dual flag unchanged and does not
\* rebuild or dispose any geometry.
C23_EventsKeepTheRest ==
  [][/\ (\E key \in ShapeKeys : SelectShape(key)) => SelectionKept
     /\ ToggleDual => DualToggleKept
     /\ ToggleWireframe => WireframeToggleKept]_vars

\* the three events have been handled: wireframe mode, the dual on, the cube
\* selected, in the third group built, whose geometries are whole
C23_Witness ==
  /\ pc = "ready" /\ currentDisplay = "wireframe" /\ showDual /\ currentShape = "cube"
  /\ meshGroup.id = 3 /\ meshGroup.userData.set
  /\ meshGroup.children = <<"wireframeLine">>
  /\ ~geoms[meshGroup.userData.geometry].disposed
  /\ ~geoms[meshGroup.userData.edgesGeometry].disposed


============================================================================
